---- MODULE Spec2Model ----
(***************************************************************************)
(* The tool-calling agent loop of src/agent.py (class Agent): the          *)
(* conversation state machine of Agent.run, the tool invoker               *)
(* Agent._call_tool and the result formatter Agent._format_tool_result.    *)
(*                                                                         *)
(* The planner/executor driving loop of src/main.py runs two such agents    *)
(* one after the other; the agent variables hold the fields of the agent   *)
(* that is being run.                                                      *)
(*                                                                         *)
(* Python strings are sequences of one-character strings, so that lower(), *)
(* the substring test, startswith() and string formatting are computed.    *)
(* Python values are tagged records: None, str, int, dict, list.           *)
(***************************************************************************)
EXTENDS Integers, Sequences, FiniteSets, TLC

VARIABLES
    pc,                    \* position of the caller / of Agent.run
    max_iterations,        \* self.max_iterations
    conversation_history,  \* self.conversation_history
    iteration_count,       \* self.iteration_count
    message,               \* local `message` of run (response.choices[0].message)
    call_index,            \* position of the `for tool_call in message.tool_calls` loop
    invoke,                \* locals of the last loop body: tool_name, arguments, tool_result, ...
    ret,                   \* the dictionary the last run() returned
    terminal,              \* which return statement of run() was executed
    model_calls,           \* number of client.chat.completions.create calls of this run
    tool_calls_requested,  \* number of tool calls the model requested in this run
    agent,                 \* the Agent object the fields above belong to
    main_pc,               \* position of the driving loop of src/main.py
    plan_storage,          \* plan_storage of src/main.py
    run_log,               \* the run() calls made so far, in call order
    session_log,           \* the file at self.session_log_path of an AgenticLoop
    schemas,               \* what the _get_tool_schemas calls made so far returned
    agentic_loop,          \* an AgenticLoop given what the Agent is given, run side by side
    latex_resume,          \* the ResumeBuilder of src/main.py line 104
    results                \* the dictionaries run() has handed back, each with the list it refers to

\* what the methods of the agent leave alone: the state of the driving loop,
\* the session log file and the schemas handed to the caller
main_vars == <<agent, main_pc, plan_storage, run_log, session_log, schemas,
               agentic_loop, latex_resume, results>>

vars == <<pc, max_iterations, conversation_history, iteration_count, message,
          call_index, invoke, ret, terminal, model_calls, tool_calls_requested,
          agent, main_pc, plan_storage, run_log, session_log, schemas,
          agentic_loop, latex_resume, results>>

-----------------------------------------------------------------------------
(* Bounds of the model *)

MaxCap == 2

MaxToolCalls == 2

MaxRuns == 2

\* an Agent has no session log: self.session_log_path = None
NoFile == "none"

\* no AgenticLoop is run side by side with the agent
NoLoop == [none |-> TRUE]

\* no ResumeBuilder has been constructed
NoResume == [none |-> TRUE]

\* src/resume_creation_agent.py lines 262-267: the log file as
\* _initialize_session_log writes it (the time stamps, the model name and the
\* cap are left out)
InitialLog == [interactions |-> <<>>]

\* max_iterations of the planner and of the executor of src/main.py
PlannerMaxIterations == 5

ExecutorMaxIterations == 10

-----------------------------------------------------------------------------
(* Strings *)

UpperCase ==
    <<"A", "B", "C", "D", "E", "F", "G", "H", "I", "J", "K", "L", "M",
      "N", "O", "P", "Q", "R", "S", "T", "U", "V", "W", "X", "Y", "Z">>

LowerCase ==
    <<"a", "b", "c", "d", "e", "f", "g", "h", "i", "j", "k", "l", "m",
      "n", "o", "p", "q", "r", "s", "t", "u", "v", "w", "x", "y", "z">>

LowerChar(c) ==
    IF \E i \in 1..Len(UpperCase) : UpperCase[i] = c
    THEN LowerCase[CHOOSE i \in 1..Len(UpperCase) : UpperCase[i] = c]
    ELSE c

\* str.lower()
Lower(s) == [i \in 1..Len(s) |-> LowerChar(s[i])]

\* `sub in s`
Contains(s, sub) ==
    \E i \in 0..(Len(s) - Len(sub)) : SubSeq(s, i + 1, i + Len(sub)) = sub

\* s.startswith(prefix)
StartsWith(s, prefix) ==
    /\ Len(s) >= Len(prefix)
    /\ SubSeq(s, 1, Len(prefix)) = prefix

RECURSIVE Join(_, _)
\* sep.join(parts)
Join(parts, sep) ==
    IF Len(parts) = 0 THEN <<>>
    ELSE IF Len(parts) = 1 THEN parts[1]
    ELSE parts[1] \o sep \o Join(Tail(parts), sep)

Digits == <<"0", "1", "2", "3", "4", "5", "6", "7", "8", "9">>

RECURSIVE NatStr(_)
NatStr(n) ==
    IF n < 10 THEN <<Digits[n + 1]>>
    ELSE NatStr(n \div 10) \o <<Digits[(n % 10) + 1]>>

\* str(i) of an integer
IntStr(i) == IF i < 0 THEN <<"-">> \o NatStr(-i) ELSE NatStr(i)

-----------------------------------------------------------------------------
(* Python values *)

PyNone == [t |-> "None"]

PyStr(s) == [t |-> "str", s |-> s]

PyInt(i) == [t |-> "int", i |-> i]

\* a dict is the sequence of its <<key, value>> items in insertion order
PyDict(items) == [t |-> "dict", d |-> items]

PyList(l) == [t |-> "list", l |-> l]

\* str(value), as an f-string formats a value
Str(v) ==
    CASE v.t = "str" -> v.s
      [] v.t = "int" -> IntStr(v.i)
      [] v.t = "None" -> <<"N", "o", "n", "e">>

\* bool(v): the truth value Python gives `if v:`
Truthy(v) ==
    CASE v.t = "None" -> FALSE
      [] v.t = "str"  -> Len(v.s) > 0
      [] v.t = "int"  -> v.i # 0
      [] v.t = "dict" -> Len(v.d) > 0
      [] v.t = "list" -> Len(v.l) > 0

\* dict.get(key, default) on a message (a record whose fields are the keys)
Get(d, key, default) == IF key \in DOMAIN d THEN d[key] ELSE default

EscapeChar(c) ==
    CASE c = "\"" -> <<"\\", "\"">>
      [] c = "\\" -> <<"\\", "\\">>
      [] c = "\n" -> <<"\\", "n">>
      [] OTHER    -> <<c>>

RECURSIVE Escape(_)
Escape(s) == IF Len(s) = 0 THEN <<>> ELSE EscapeChar(Head(s)) \o Escape(Tail(s))

Quote(s) == <<"\"">> \o Escape(s) \o <<"\"">>

\* json.dumps of a scalar
DumpScalar(v) ==
    CASE v.t = "None" -> <<"n", "u", "l", "l">>
      [] v.t = "str"  -> Quote(v.s)
      [] v.t = "int"  -> IntStr(v.i)

\* json.dumps(v, indent=2, ensure_ascii=False) for scalars and for flat
\* dicts and lists of scalars
JsonDumps(v) ==
    CASE v.t = "dict" ->
            IF Len(v.d) = 0 THEN <<"{", "}">>
            ELSE <<"{", "\n">>
                 \o Join([i \in 1..Len(v.d) |->
                            <<" ", " ">> \o Quote(v.d[i][1]) \o <<":", " ">>
                            \o DumpScalar(v.d[i][2])],
                         <<",", "\n">>)
                 \o <<"\n", "}">>
      [] v.t = "list" ->
            IF Len(v.l) = 0 THEN <<"[", "]">>
            ELSE <<"[", "\n">>
                 \o Join([i \in 1..Len(v.l) |-> <<" ", " ">> \o DumpScalar(v.l[i])],
                         <<",", "\n">>)
                 \o <<"\n", "]">>
      [] OTHER -> DumpScalar(v)

-----------------------------------------------------------------------------
(* Return annotations, as inspect.signature(tool_func).return_annotation *)
(* gives them *)

\* no annotation: inspect.Parameter.empty
AnnEmpty == [k |-> "empty"]

\* a class used as the annotation: str, int, dict
AnnClass(name) == [k |-> "class", name |-> name]

\* `-> None`
AnnNone == [k |-> "none"]

\* an annotation left as text by `from __future__ import annotations`
AnnText(text) == [k |-> "text", text |-> text]

\* a subscripted typing form: Optional[str] is Union[str, None]
AnnGeneric(origin, args) == [k |-> "generic", origin |-> origin, args |-> args]

OptionalStr == AnnGeneric("Union", <<"str", "NoneType">>)

\* typing.get_origin(annotation); "None" stands for Python's None
GetOrigin(ann) == IF ann.k = "generic" THEN ann.origin ELSE "None"

\* typing.get_args(annotation)
GetArgs(ann) == IF ann.k = "generic" THEN ann.args ELSE <<>>

\* str(origin)
OriginStr(origin) ==
    CASE origin = "Union" ->
            <<"t", "y", "p", "i", "n", "g", ".", "U", "n", "i", "o", "n">>
      [] origin = "dict" ->
            <<"<", "c", "l", "a", "s", "s", " ", "'", "d", "i", "c", "t", "'", ">">>
      [] origin = "list" ->
            <<"<", "c", "l", "a", "s", "s", " ", "'", "l", "i", "s", "t", "'", ">">>

\* origin.__name__
OriginName(origin) ==
    CASE origin = "Union" -> <<"U", "n", "i", "o", "n">>
      [] origin = "dict"  -> <<"d", "i", "c", "t">>
      [] origin = "list"  -> <<"l", "i", "s", "t">>

UnionWord == <<"U", "n", "i", "o", "n">>

\* lines 133-150 of _call_tool: the value of is_optional when the annotation
\* is not exactly str
IsOptional(ann) ==
    IF ann.k = "empty" THEN FALSE
    ELSE LET origin == GetOrigin(ann)
             args   == IF origin # "None" THEN GetArgs(ann) ELSE <<>>
         IN  IF origin # "None"
             THEN IF \/ Contains(OriginStr(origin), UnionWord)
                     \/ OriginName(origin) = UnionWord
                  THEN \E i \in 1..Len(args) : args[i] = "NoneType"
                  ELSE FALSE
             ELSE FALSE

-----------------------------------------------------------------------------
(* The tool mapping self.tools *)

StrTool == <<"s", "t", "r", "_", "t", "o", "o", "l">>

OptTool == <<"o", "p", "t", "_", "t", "o", "o", "l">>

AnyTool == <<"a", "n", "y", "_", "t", "o", "o", "l">>

\* a name the tool mapping does not hold
NoTool == <<"n", "o", "_", "t", "o", "o", "l">>

ParamA == <<"a">>

\* name -> the callable: its parameters (name, has a default) and its
\* return annotation
NoneTool == <<"n", "o", "n", "e", "_", "t", "o", "o", "l">>

TextTool == <<"t", "e", "x", "t", "_", "t", "o", "o", "l">>

OptIntTool == <<"o", "p", "t", "i", "n", "t", "_", "t", "o", "o", "l">>

DictTool == <<"d", "i", "c", "t", "_", "t", "o", "o", "l">>

UnionTool == <<"u", "n", "i", "o", "n", "_", "t", "o", "o", "l">>

\* a callable with one parameter `a`, required or with a default
Callable(has_default, return_annotation) ==
    [params |-> <<[name |-> ParamA, default |-> has_default]>>,
     return_annotation |-> return_annotation]

\* a callable with the required parameters `names`
Function(names, return_annotation) ==
    [params |-> [i \in 1..Len(names) |-> [name |-> names[i], default |-> FALSE]],
     return_annotation |-> return_annotation]

\* name -> the callable: its parameters and its return annotation
\*   str_tool(a) -> str                  any_tool(a="d")
\*   opt_tool(a) -> Optional[str]        none_tool(a) -> None
\*   text_tool(a) -> "Optional[str]"     optint_tool(a) -> Optional[int]
\*   dict_tool(a) -> Dict                union_tool(a) -> Union[str, int]
sample_tools ==
    (StrTool :> Callable(FALSE, AnnClass("str")))
    @@ (OptTool :> Callable(FALSE, OptionalStr))
    @@ (AnyTool :> Callable(TRUE, AnnEmpty))
    @@ (NoneTool :> Callable(FALSE, AnnNone))
    @@ (TextTool :> Callable(FALSE,
                             AnnText(<<"O", "p", "t", "i", "o", "n", "a", "l", "[",
                                       "s", "t", "r", "]">>)))
    @@ (OptIntTool :> Callable(FALSE, AnnGeneric("Union", <<"int", "NoneType">>)))
    @@ (DictTool :> Callable(FALSE, AnnGeneric("dict", <<>>)))
    @@ (UnionTool :> Callable(FALSE, AnnGeneric("Union", <<"str", "int">>)))

AddActionItem == <<"a", "d", "d", "_", "a", "c", "t", "i", "o", "n", "_", "i", "t", "e", "m">>

ActionItemParam == <<"a", "c", "t", "i", "o", "n", "_", "i", "t", "e", "m">>

ReportWeakness == <<"r", "e", "p", "o", "r", "t", "_", "w", "e", "a", "k", "n", "e", "s", "s", "_", "t", "o", "_", "u", "s", "e", "r">>

\* src/main.py lines 39-41
planner_tools ==
    (AddActionItem :> Function(<<ActionItemParam>>, AnnClass("str")))

\* the text inspect gives for `-> Optional[str]` in src/resume_builder.py
OptionalStrText == AnnText(<<"O", "p", "t", "i", "o", "n", "a", "l", "[", "s", "t", "r", "]">>)

\* the executor is handed the append tool of the planner as well
MutExecutorTools ==
    planner_tools
    @@ (ReportWeakness :> Function(<<<<"i", "n", "f", "o", "r", "m", "a", "t", "i", "o", "n">>>>, AnnNone))

\* src/main.py lines 107-117: the bound methods of the ResumeBuilder and
\* report_weakness_to_user
executor_tools ==
    (<<"s", "e", "t", "_", "n", "a", "m", "e">> :> Function(<<<<"n", "a", "m", "e">>>>, OptionalStrText))
    @@ (<<"s", "e", "t", "_", "a", "d", "d", "r", "e", "s", "s">> :> Function(<<<<"a", "d", "d", "r", "e", "s", "s">>>>, OptionalStrText))
    @@ (<<"s", "e", "t", "_", "p", "h", "o", "n", "e", "_", "n", "u", "m", "b", "e", "r">> :> Function(<<<<"n", "u", "m", "b", "e", "r">>>>, OptionalStrText))
    @@ (<<"s", "e", "t", "_", "e", "m", "a", "i", "l">> :> Function(<<<<"e", "m", "a", "i", "l">>>>, OptionalStrText))
    @@ (<<"a", "d", "d", "_", "c", "o", "n", "t", "a", "c", "t">> :>
           Function(<<<<"c", "o", "n", "t", "a", "c", "t", "_", "t", "y", "p", "e">>,
                      <<"d", "i", "s", "p", "l", "a", "y", "_", "n", "a", "m", "e">>,
                      <<"l", "i", "n", "k">>>>, OptionalStrText))
    @@ (<<"s", "e", "t", "_", "s", "u", "m", "m", "a", "r", "y">> :> Function(<<<<"s", "u", "m", "m", "a", "r", "y">>>>, OptionalStrText))
    @@ (<<"a", "d", "d", "_", "s", "k", "i", "l", "l", "s">> :>
           Function(<<<<"s", "e", "c", "t", "i", "o", "n">>,
                      <<"s", "k", "i", "l", "l", "s">>>>, OptionalStrText))
    @@ (<<"a", "d", "d", "_", "w", "o", "r", "k", "_", "e", "x", "p", "e", "r", "i", "e", "n", "c", "e">> :>
           Function(<<<<"j", "o", "b", "_", "t", "i", "t", "l", "e">>,
                      <<"c", "o", "m", "p", "a", "n", "y">>,
                      <<"s", "t", "a", "r", "t", "_", "d", "a", "t", "e">>,
                      <<"e", "n", "d", "_", "d", "a", "t", "e">>,
                      <<"l", "o", "c", "a", "t", "i", "o", "n">>,
                      <<"e", "x", "p", "e", "r", "i", "e", "n", "c", "e", "_", "p", "o", "i", "n", "t", "s">>>>,
                    OptionalStrText))
    @@ (ReportWeakness :>
           Function(<<<<"i", "n", "f", "o", "r", "m", "a", "t", "i", "o", "n">>>>, AnnNone))

\* self.tools of the agent that is being run
tools ==
    CASE agent = "planner"  -> planner_tools
      [] agent = "executor" -> executor_tools
      [] OTHER              -> sample_tools

\* what a tool body can do once it runs: raise, or return a value
Raise(msg) == [kind |-> "raise", msg |-> msg]

Return(value) == [kind |-> "return", value |-> value]

Boom == <<"b", "o", "o", "m">>

ErrorBad == <<"E", "r", "r", "o", "r", ":", " ", "b", "a", "d">>

Fine == <<"f", "i", "n", "e">>

ErrorLow == <<"e", "r", "r", "o", "r", ":", " ", "l", "o", "w">>

\* what the body of a tool may do
Outcomes ==
    {Raise(Boom), Return(PyNone), Return(PyStr(ErrorBad)), Return(PyStr(Fine)),
     Return(PyStr(ErrorLow)), Return(PyStr(<<>>)), Return(PyInt(7))}

TypeName(v) ==
    CASE v.t = "None" -> <<"N", "o", "n", "e", "T", "y", "p", "e">>
      [] v.t = "str"  -> <<"s", "t", "r">>
      [] v.t = "int"  -> <<"i", "n", "t">>
      [] v.t = "list" -> <<"l", "i", "s", "t">>
      [] v.t = "dict" -> <<"d", "i", "c", "t">>

Keys(arguments) == {arguments.d[i][1] : i \in 1..Len(arguments.d)}

\* arguments[key] of a dict that holds the key
Arg(arguments, key) ==
    arguments.d[CHOOSE i \in 1..Len(arguments.d) : arguments.d[i][1] = key][2]

ParamNames(tool) == {tool.params[i].name : i \in 1..Len(tool.params)}

Required(tool) ==
    {tool.params[i].name : i \in {j \in 1..Len(tool.params) : ~tool.params[j].default}}

\* tool_func(**arguments): Python raises TypeError before the body runs when
\* arguments is no mapping, names a parameter the tool lacks or misses a
\* required one; otherwise the body runs and `outcome` is what it does
Apply(tool_name, arguments, outcome) ==
    LET tool == tools[tool_name] IN
    IF arguments.t # "dict"
    THEN Raise(tool_name
               \o <<"(", ")", " ", "a", "r", "g", "u", "m", "e", "n", "t", " ",
                    "a", "f", "t", "e", "r", " ", "*", "*", " ", "m", "u", "s", "t",
                    " ", "b", "e", " ", "a", " ", "m", "a", "p", "p", "i", "n", "g",
                    ",", " ", "n", "o", "t", " ">>
               \o TypeName(arguments))
    ELSE IF Keys(arguments) \ ParamNames(tool) # {}
    THEN Raise(tool_name
               \o <<"(", ")", " ", "g", "o", "t", " ", "a", "n", " ", "u", "n", "e",
                    "x", "p", "e", "c", "t", "e", "d", " ", "k", "e", "y", "w", "o",
                    "r", "d", " ", "a", "r", "g", "u", "m", "e", "n", "t", " ", "'">>
               \o (CHOOSE key \in Keys(arguments) \ ParamNames(tool) : TRUE)
               \o <<"'">>)
    ELSE IF Required(tool) \ Keys(arguments) # {}
    THEN Raise(tool_name
               \o <<"(", ")", " ", "m", "i", "s", "s", "i", "n", "g", " ", "1", " ",
                    "r", "e", "q", "u", "i", "r", "e", "d", " ", "p", "o", "s", "i",
                    "t", "i", "o", "n", "a", "l", " ", "a", "r", "g", "u", "m", "e",
                    "n", "t", ":", " ", "'">>
               \o (CHOOSE key \in Required(tool) \ Keys(arguments) : TRUE)
               \o <<"'">>)
    ELSE outcome

\* TRUE iff the body of the tool runs
BodyRuns(tool_name, arguments) ==
    /\ tool_name \in DOMAIN tools
    /\ arguments.t = "dict"
    /\ Keys(arguments) \subseteq ParamNames(tools[tool_name])
    /\ Required(tools[tool_name]) \subseteq Keys(arguments)

-----------------------------------------------------------------------------
(* Agent._call_tool *)

Success(data) == [success |-> TRUE, data |-> data]

Failure(error, tool_name, arguments) ==
    [success |-> FALSE, error |-> error, tool_name |-> tool_name,
     arguments |-> arguments]

\* the test for a plain str annotation left out
MutClassifyNoStrRule(return_annotation, result, tool_name, arguments) ==
    IF result.t = "None" THEN Success(PyNone)
    ELSE IF result.t = "str"
    THEN IF IsOptional(return_annotation)
         THEN Failure(result.s, tool_name, arguments)
         ELSE IF StartsWith(result.s, <<"E", "r", "r", "o", "r", ":">>)
         THEN Failure(result.s, tool_name, arguments)
         ELSE Success(result)
    ELSE Success(result)

\* "Error:" matched in any case
MutClassifyAnyCase(return_annotation, result, tool_name, arguments) ==
    IF return_annotation.k # "empty" /\ return_annotation = AnnClass("str")
    THEN Success(result)
    ELSE IF result.t = "None" THEN Success(PyNone)
    ELSE IF result.t = "str"
    THEN IF IsOptional(return_annotation)
         THEN Failure(result.s, tool_name, arguments)
         ELSE IF StartsWith(Lower(result.s), <<"e", "r", "r", "o", "r", ":">>)
         THEN Failure(result.s, tool_name, arguments)
         ELSE Success(result)
    ELSE Success(result)

\* lines 130-178: the classification of a normal return
Classify(return_annotation, result, tool_name, arguments) ==
    IF return_annotation.k # "empty" /\ return_annotation = AnnClass("str")
    THEN Success(result)
    ELSE IF result.t = "None" THEN Success(PyNone)
    ELSE IF result.t = "str"
    THEN IF IsOptional(return_annotation)
         THEN Failure(result.s, tool_name, arguments)
         ELSE IF StartsWith(result.s, <<"E", "r", "r", "o", "r", ":">>)
         THEN Failure(result.s, tool_name, arguments)
         ELSE Success(result)
    ELSE Success(result)

\* the failure of an unknown name does not echo the arguments
MutCallToolNoEcho(tool_name, arguments, outcome) ==
    IF tool_name \notin DOMAIN tools
    THEN Failure(<<"T", "o", "o", "l", " ", "'">> \o tool_name
                 \o <<"'", " ", "n", "o", "t", " ", "f", "o", "u", "n", "d">>,
                 tool_name, PyDict(<<>>))
    ELSE LET done == Apply(tool_name, arguments, outcome) IN
         IF done.kind = "raise"
         THEN Failure(done.msg, tool_name, arguments)
         ELSE Classify(tools[tool_name].return_annotation, done.value,
                       tool_name, arguments)

\* the message of a raised fault is handed back as data
MutCallToolSwallow(tool_name, arguments, outcome) ==
    IF tool_name \notin DOMAIN tools
    THEN Failure(<<"T", "o", "o", "l", " ", "'">> \o tool_name
                 \o <<"'", " ", "n", "o", "t", " ", "f", "o", "u", "n", "d">>,
                 tool_name, arguments)
    ELSE LET done == Apply(tool_name, arguments, outcome) IN
         IF done.kind = "raise"
         THEN Success(PyStr(done.msg))
         ELSE Classify(tools[tool_name].return_annotation, done.value,
                       tool_name, arguments)

\* _call_tool(tool_name, arguments), the tool doing `outcome` if its body runs
CallTool(tool_name, arguments, outcome) ==
    IF tool_name \notin DOMAIN tools
    THEN Failure(<<"T", "o", "o", "l", " ", "'">> \o tool_name
                 \o <<"'", " ", "n", "o", "t", " ", "f", "o", "u", "n", "d">>,
                 tool_name, arguments)
    ELSE LET done == Apply(tool_name, arguments, outcome) IN
         IF done.kind = "raise"
         THEN Failure(done.msg, tool_name, arguments)
         ELSE Classify(tools[tool_name].return_annotation, done.value,
                       tool_name, arguments)

-----------------------------------------------------------------------------
(* Agent._format_tool_result *)

\* a success without data is rendered as its JSON text
MutFormatNullData(tool_name, result) ==
    IF "success" \in DOMAIN result
    THEN IF result.success
         THEN <<"S", "u", "c", "c", "e", "s", "s", ":", " ">> \o JsonDumps(Get(result, "data", PyNone))
         ELSE <<"E", "r", "r", "o", "r", " ", "c", "a", "l", "l", "i", "n", "g", " ">> \o Get(result, "tool_name", tool_name)
              \o <<" ", "w", "i", "t", "h", " ", "a", "r", "g", "u", "m", "e", "n", "t", "s", ":", "\n">>
              \o JsonDumps(Get(result, "arguments", PyDict(<<>>)))
              \o <<"\n", "\n", "E", "r", "r", "o", "r", ":", " ">> \o Get(result, "error", <<"U", "n", "k", "n", "o", "w", "n", " ", "e", "r", "r", "o", "r">>)
    ELSE JsonDumps(result)

\* a failure is rendered without the arguments of the invocation
MutFormatNoArguments(tool_name, result) ==
    IF "success" \in DOMAIN result
    THEN IF result.success
         THEN LET data == Get(result, "data", PyNone) IN
              IF data.t = "None"
              THEN <<"S", "u", "c", "c", "e", "s", "s", ":", " ", "O", "p", "e", "r", "a", "t", "i", "o", "n", " ", "c", "o", "m", "p", "l", "e", "t", "e", "d", " ", "s", "u", "c", "c", "e", "s", "s", "f", "u", "l", "l", "y", ".">>
              ELSE <<"S", "u", "c", "c", "e", "s", "s", ":", " ">> \o JsonDumps(data)
         ELSE <<"E", "r", "r", "o", "r", " ", "c", "a", "l", "l", "i", "n", "g", " ">> \o Get(result, "tool_name", tool_name)
              \o <<":", " ">> \o Get(result, "error", <<"U", "n", "k", "n", "o", "w", "n", " ", "e", "r", "r", "o", "r">>)
    ELSE JsonDumps(result)

FormatToolResult(tool_name, result) ==
    IF "success" \in DOMAIN result
    THEN IF result.success
         THEN LET data == Get(result, "data", PyNone) IN
              IF data.t = "None"
              THEN <<"S", "u", "c", "c", "e", "s", "s", ":", " ", "O", "p", "e",
                     "r", "a", "t", "i", "o", "n", " ", "c", "o", "m", "p", "l",
                     "e", "t", "e", "d", " ", "s", "u", "c", "c", "e", "s", "s",
                     "f", "u", "l", "l", "y", ".">>
              ELSE <<"S", "u", "c", "c", "e", "s", "s", ":", " ">> \o JsonDumps(data)
         ELSE LET error_msg == Get(result, "error",
                                   <<"U", "n", "k", "n", "o", "w", "n", " ", "e",
                                     "r", "r", "o", "r">>)
                  arguments == Get(result, "arguments", PyDict(<<>>))
                  tool_name_used == Get(result, "tool_name", tool_name)
                  args_str == JsonDumps(arguments)
              IN  <<"E", "r", "r", "o", "r", " ", "c", "a", "l", "l", "i", "n", "g", " ">>
                  \o tool_name_used
                  \o <<" ", "w", "i", "t", "h", " ", "a", "r", "g", "u", "m", "e",
                       "n", "t", "s", ":", "\n">>
                  \o args_str
                  \o <<"\n", "\n", "E", "r", "r", "o", "r", ":", " ">>
                  \o error_msg
    ELSE JsonDumps(result)

-----------------------------------------------------------------------------
(* AgenticLoop._call_tool and AgenticLoop._format_tool_result of          *)
(* src/resume_creation_agent.py                                            *)

\* the dictionary {"error": msg}
ErrorDict(msg) == PyDict(<< <<<<"e", "r", "r", "o", "r">>, PyStr(msg)>> >>)

\* src/resume_creation_agent.py lines 119-129: the result of the tool as it
\* is, or {"error": ...} for an unknown name and for a raised fault
LoopCallTool(tool_name, arguments, outcome) ==
    IF tool_name \notin DOMAIN tools
    THEN ErrorDict(<<"T", "o", "o", "l", " ", "'">> \o tool_name \o <<"'", " ", "n", "o", "t", " ", "f", "o", "u", "n", "d">>)
    ELSE LET done == Apply(tool_name, arguments, outcome) IN
         IF done.kind = "raise"
         THEN ErrorDict(done.msg)
         ELSE done.value

\* src/resume_creation_agent.py lines 131-139
LoopFormatToolResult(tool_name, result) ==
    IF result.t = "dict" /\ <<"e", "r", "r", "o", "r">> \in Keys(result)
    THEN <<"E", "r", "r", "o", "r", " ", "c", "a", "l", "l", "i", "n", "g", " ">> \o tool_name \o <<":", " ">> \o Str(Arg(result, <<"e", "r", "r", "o", "r">>))
    ELSE JsonDumps(result)

\* self._call_tool: the method of the class the agent is an object of
SelfCallTool(tool_name, arguments, outcome) ==
    IF agent = "loop"
    THEN LoopCallTool(tool_name, arguments, outcome)
    ELSE CallTool(tool_name, arguments, outcome)

\* self._format_tool_result
SelfFormatToolResult(tool_name, result) ==
    IF agent = "loop"
    THEN LoopFormatToolResult(tool_name, result)
    ELSE FormatToolResult(tool_name, result)

-----------------------------------------------------------------------------
(* The decision model and the caller: the inputs of Agent.run *)

\* self.system_prompt of the agent that is being run (the prompts of
\* src/main.py are cut to their first words)
system_prompt ==
    CASE agent = "planner"  -> <<"Y", "o", "u", " ", "a", "r", "e", " ", "a", " ", "p", "l", "a", "n", "n", "i", "n", "g", " ", "a", "g", "e", "n", "t", ".">>
      [] agent = "executor" -> <<"Y", "o", "u", " ", "a", "r", "e", " ", "a", "n", " ", "e", "x", "e", "c", "u", "t", "i", "o", "n", " ", "a", "g", "e", "n", "t", ".">>
      [] OTHER              -> <<"s", "y", "s">>

Tasks == {<<"t", "1">>, <<"t", "2">>}

Caps == 0..MaxCap

TaskComplete == <<"t", "a", "s", "k", " ", "c", "o", "m", "p", "l", "e", "t", "e">>

\* message.content of a response: None, "", a plain text and a text that
\* holds the completion phrase in mixed case
Contents ==
    {PyNone,
     PyStr(<<>>),
     PyStr(<<"o", "k">>),
     PyStr(<<"T", "a", "s", "k", " ", "C", "o", "m", "p", "l", "e", "t", "e">>)}

\* message.content of a response that requests tool calls
ToolTurnContents ==
    {PyNone,
     PyStr(<<"T", "a", "s", "k", " ", "C", "o", "m", "p", "l", "e", "t", "e">>)}

PayloadObject == <<"{", "\"", "a", "\"", ":", " ", "\"", "x", "\"", "}">>

PayloadMalformed == <<"{", "o", "o", "p", "s">>

PayloadList == <<"[", "1", "]">>

PayloadItem1 == <<"{", "\"", "a", "c", "t", "i", "o", "n", "_", "i", "t", "e", "m", "\"", ":", " ", "\"", "i", "1", "\"", "}">>

PayloadItem2 == <<"{", "\"", "a", "c", "t", "i", "o", "n", "_", "i", "t", "e", "m", "\"", ":", " ", "\"", "i", "2", "\"", "}">>

PayloadItemInt == <<"{", "\"", "a", "c", "t", "i", "o", "n", "_", "i", "t", "e", "m", "\"", ":", " ", "7", "}">>

PayloadInformation == <<"{", "\"", "i", "n", "f", "o", "r", "m", "a", "t", "i", "o", "n", "\"", ":", " ", "\"", "x", "\"", "}">>

\* tool_call.function.arguments of a requested call
Payloads == {PayloadObject, PayloadMalformed, PayloadList}

\* json.loads(payload) on the payloads above: the parsed value, or the
\* ValueError it raises
JsonLoads(payload) ==
    CASE payload = PayloadObject ->
            [ok |-> TRUE, value |-> PyDict(<< <<ParamA, PyStr(<<"x">>)>> >>)]
      [] payload = PayloadList ->
            [ok |-> TRUE, value |-> PyList(<<PyInt(1)>>)]
      [] payload = PayloadItem1 ->
            [ok |-> TRUE, value |-> PyDict(<< <<ActionItemParam, PyStr(<<"i", "1">>)>> >>)]
      [] payload = PayloadItem2 ->
            [ok |-> TRUE, value |-> PyDict(<< <<ActionItemParam, PyStr(<<"i", "2">>)>> >>)]
      [] payload = PayloadItemInt ->
            [ok |-> TRUE, value |-> PyDict(<< <<ActionItemParam, PyInt(7)>> >>)]
      [] payload = PayloadInformation ->
            [ok |-> TRUE,
             value |-> PyDict(<< <<<<"i", "n", "f", "o", "r", "m", "a", "t", "i", "o", "n">>, PyStr(<<"x">>)>> >>)]
      [] OTHER -> [ok |-> FALSE]

\* the payload is passed on as text when it does not parse
MutArguments(payload) ==
    IF JsonLoads(payload).ok THEN JsonLoads(payload).value ELSE PyStr(payload)

\* lines 284-287: the arguments of a requested call; a payload json.loads
\* rejects gives {}
Arguments(payload) ==
    IF JsonLoads(payload).ok THEN JsonLoads(payload).value ELSE PyDict(<<>>)

\* the requests the decision model makes in a run: an unregistered name, a
\* well-formed call of each of three tools, a payload that does not parse and
\* a payload that is no mapping
Requests ==
    {[name |-> NoTool, arguments |-> PayloadObject],
     [name |-> StrTool, arguments |-> PayloadObject],
     [name |-> StrTool, arguments |-> PayloadMalformed],
     [name |-> OptTool, arguments |-> PayloadObject],
     [name |-> AnyTool, arguments |-> PayloadObject],
     [name |-> AnyTool, arguments |-> PayloadList]}

\* the item is put in front of the list
MutAddActionItem(action_item) ==
    LET items == <<action_item>> \o plan_storage.action_items IN
    [action_items |-> items,
     outcome |->
        IF action_item.t = "str"
        THEN Return(PyStr(<<"A", "c", "t", "i", "o", "n", " ", "i", "t", "e",
                            "m", " ", "a", "d", "d", "e", "d", ":", " ">>
                          \o SubSeq(action_item.s, 1,
                                    IF Len(action_item.s) < 50
                                    THEN Len(action_item.s) ELSE 50)
                          \o <<".", ".", ".", " ", "(", "T", "o", "t", "a", "l", ":", " ">>
                          \o IntStr(Len(items)) \o <<")">>))
        ELSE Raise(<<"'">> \o TypeName(action_item)
                   \o <<"'", " ", "o", "b", "j", "e", "c", "t", " ", "i", "s",
                     " ", "n", "o", "t", " ", "s", "u", "b", "s", "c", "r",
                     "i", "p", "t", "a", "b", "l", "e">>)]

\* src/main.py lines 34-37, the body of add_action_item: the list after the
\* append and what the body does after it; slicing a value that is no
\* string raises TypeError
add_action_item(action_item) ==
    LET items == Append(plan_storage.action_items, action_item) IN
    [action_items |-> items,
     outcome |->
        IF action_item.t = "str"
        THEN Return(PyStr(<<"A", "c", "t", "i", "o", "n", " ", "i", "t", "e",
                            "m", " ", "a", "d", "d", "e", "d", ":", " ">>
                          \o SubSeq(action_item.s, 1,
                                    IF Len(action_item.s) < 50
                                    THEN Len(action_item.s) ELSE 50)
                          \o <<".", ".", ".", " ", "(", "T", "o", "t", "a", "l", ":", " ">>
                          \o IntStr(Len(items)) \o <<")">>))
        ELSE Raise(<<"'">> \o TypeName(action_item)
                   \o <<"'", " ", "o", "b", "j", "e", "c", "t", " ", "i", "s",
                     " ", "n", "o", "t", " ", "s", "u", "b", "s", "c", "r",
                     "i", "p", "t", "a", "b", "l", "e">>)]

\* the arguments of the call the loop over message.tool_calls is at
CurrentArguments == Arguments(message.tool_calls.l[call_index].arguments)

\* what the body of a tool does when it is called in a run
RunOutcomes(tool_name) ==
    CASE tool_name = StrTool -> {Return(PyStr(ErrorBad))}
      [] tool_name = OptTool -> {Return(PyNone), Return(PyStr(Fine))}
      [] tool_name = AnyTool -> {Raise(Boom), Return(PyStr(Fine))}
      [] tool_name = AddActionItem ->
            IF BodyRuns(AddActionItem, CurrentArguments)
            THEN {add_action_item(Arg(CurrentArguments, ActionItemParam)).outcome}
            ELSE {Return(PyNone)}
      [] OTHER -> {Return(PyNone)}

\* the call-ids of the calls of one response are distinct
CallId(turn, j) == <<"c", "a", "l", "l", "_">> \o IntStr(turn) \o <<"_">> \o IntStr(j)

\* message.tool_calls holding the requests reqs, as returned on turn `turn`
ToolCallList(turn, reqs) ==
    PyList([j \in 1..Len(reqs) |->
              [id |-> CallId(turn, j), name |-> reqs[j].name,
               arguments |-> reqs[j].arguments]])

RequestLists(requests, n) == UNION {[1..len -> requests] : len \in 1..n}

\* the responses the decision model can give on turn `turn` when it may still
\* request `budget` tool calls, each out of `requests`
Responses(turn, budget, requests) ==
    {[content |-> c, tool_calls |-> PyNone] : c \in Contents}
    \cup {[content |-> PyStr(<<"o", "k">>), tool_calls |-> PyList(<<>>)]}
    \cup {[content |-> c, tool_calls |-> ToolCallList(turn, reqs)] :
            c \in ToolTurnContents, reqs \in RequestLists(requests, budget)}

Faults == {<<"n", "e", "t", " ", "d", "o", "w", "n">>}

-----------------------------------------------------------------------------
(* Agent.run *)

NoMessage == [none |-> TRUE]

NoInvoke == [none |-> TRUE]

NoReturn == [none |-> TRUE]

Init ==
    /\ pc = "idle"
    /\ max_iterations \in Caps
    /\ conversation_history = <<>>
    /\ iteration_count = 0
    /\ message = NoMessage
    /\ call_index = 0
    /\ invoke = NoInvoke
    /\ ret = NoReturn
    /\ terminal = "none"
    /\ model_calls = 0
    /\ tool_calls_requested = 0
    /\ agent = "agent"
    /\ main_pc = "none"
    /\ plan_storage = [action_items |-> <<>>, current_index |-> 0]
    /\ run_log = <<>>
    /\ session_log = NoFile
    /\ schemas = <<>>
    /\ agentic_loop = NoLoop
    /\ latex_resume = NoResume
    /\ results = <<>>

\* the transcript starts with the task alone
MutRun(task) ==
    /\ pc \in {"idle", "done"}
    /\ conversation_history' = <<[role |-> "user", content |-> PyStr(task)]>>
    /\ iteration_count' = 0
    /\ pc' = "loop"
    /\ message' = NoMessage
    /\ call_index' = 0
    /\ invoke' = NoInvoke
    /\ ret' = NoReturn
    /\ terminal' = "none"
    /\ model_calls' = 0
    /\ tool_calls_requested' = 0
    /\ UNCHANGED max_iterations

\* the system message is only written into an empty transcript
MutRunKeepHistory(task) ==
    /\ pc \in {"idle", "done"}
    /\ conversation_history' =
          IF conversation_history = <<>>
          THEN <<[role |-> "system", content |-> PyStr(system_prompt)],
                 [role |-> "user", content |-> PyStr(task)]>>
          ELSE Append(conversation_history, [role |-> "user", content |-> PyStr(task)])
    /\ iteration_count' = 0
    /\ pc' = "loop"
    /\ message' = NoMessage
    /\ call_index' = 0
    /\ invoke' = NoInvoke
    /\ ret' = NoReturn
    /\ terminal' = "none"
    /\ model_calls' = 0
    /\ tool_calls_requested' = 0
    /\ UNCHANGED max_iterations

\* lines 232-241: run(task) is called on an agent that is not running
Run(task) ==
    /\ pc \in {"idle", "done"}
    /\ conversation_history' =
          <<[role |-> "system", content |-> PyStr(system_prompt)],
            [role |-> "user", content |-> PyStr(task)]>>
    /\ iteration_count' = 0
    /\ pc' = "loop"
    /\ message' = NoMessage
    /\ call_index' = 0
    /\ invoke' = NoInvoke
    /\ ret' = NoReturn
    /\ terminal' = "none"
    /\ model_calls' = 0
    /\ tool_calls_requested' = 0
    /\ UNCHANGED max_iterations

\* the loop entered once more: `<=` for `<`
MutLoopCondition(count, cap) == count <= cap

\* line 243: the condition of the while loop
LoopCondition(count, cap) == count < cap

MaxIterationsText ==
    <<"M", "a", "x", " ", "i", "t", "e", "r", "a", "t", "i", "o", "n", "s", " ",
      "r", "e", "a", "c", "h", "e", "d">>

\* the result of an exhausted run is always the placeholder
MutFinalMessage(history) == PyStr(MaxIterationsText)

\* line 320
FinalMessage(history) ==
    Get(history[Len(history)], "content", PyStr(MaxIterationsText))

\* the result of an exhausted run carries no warning
MutMaxIterationsNoWarning ==
    /\ pc = "loop"
    /\ ~LoopCondition(iteration_count, max_iterations)
    /\ LET final_message == FinalMessage(conversation_history) IN
       ret' = [result |-> final_message,
               iterations |-> iteration_count,
               conversation_history |-> conversation_history,
               final_message |-> final_message]
    /\ terminal' = "MAX_ITERATIONS"
    /\ pc' = "done"
    /\ UNCHANGED <<max_iterations, conversation_history, iteration_count, message,
                   call_index, invoke, model_calls, tool_calls_requested>>

\* lines 243, 319-329: the while condition fails
MaxIterations ==
    /\ pc = "loop"
    /\ ~LoopCondition(iteration_count, max_iterations)
    /\ LET final_message == FinalMessage(conversation_history) IN
       ret' = [result |-> final_message,
               iterations |-> iteration_count,
               conversation_history |-> conversation_history,
               final_message |-> final_message,
               warning |-> PyStr(MaxIterationsText)]
    /\ terminal' = "MAX_ITERATIONS"
    /\ pc' = "done"
    /\ UNCHANGED <<max_iterations, conversation_history, iteration_count, message,
                   call_index, invoke, model_calls, tool_calls_requested>>

\* the failure is also written into the transcript
MutTransportFault(fault) ==
    /\ pc = "loop"
    /\ iteration_count < max_iterations
    /\ iteration_count' = iteration_count + 1
    /\ model_calls' = model_calls + 1
    /\ conversation_history' =
          Append(conversation_history,
                 [role |-> "assistant", content |-> PyStr(fault),
                  tool_calls |-> PyNone])
    /\ ret' = [result |-> PyNone,
               error |-> PyStr(fault),
               iterations |-> iteration_count + 1,
               conversation_history |-> conversation_history']
    /\ terminal' = "TRANSPORT_ERROR"
    /\ pc' = "done"
    /\ UNCHANGED <<max_iterations, message, call_index, invoke, tool_calls_requested>>

\* the failed model call is tried a second time before run() gives up
MutTransportFaultRetry(fault) ==
    /\ pc = "loop"
    /\ LoopCondition(iteration_count, max_iterations)
    /\ iteration_count' = iteration_count + 1
    /\ model_calls' = model_calls + 2
    /\ ret' = [result |-> PyNone,
               error |-> PyStr(fault),
               iterations |-> iteration_count + 1,
               conversation_history |-> conversation_history]
    /\ terminal' = "TRANSPORT_ERROR"
    /\ pc' = "done"
    /\ UNCHANGED <<max_iterations, conversation_history, message, call_index,
                   invoke, tool_calls_requested>>

\* lines 243-269: the model call raises
TransportFault(fault) ==
    /\ pc = "loop"
    /\ LoopCondition(iteration_count, max_iterations)
    /\ iteration_count' = iteration_count + 1
    /\ model_calls' = model_calls + 1
    /\ ret' = [result |-> PyNone,
               error |-> PyStr(fault),
               iterations |-> iteration_count + 1,
               conversation_history |-> conversation_history]
    /\ terminal' = "TRANSPORT_ERROR"
    /\ pc' = "done"
    /\ UNCHANGED <<max_iterations, conversation_history, message, call_index,
                   invoke, tool_calls_requested>>

\* any answer without tool calls completes, on the first turn too
MutCompletionSignalAnyTurn(content, count, tool_calls) ==
    \/ Contains(Lower(content.s), TaskComplete)
    \/ ~Truthy(tool_calls)

\* only the phrase completes
MutCompletionSignalPhraseOnly(content, count, tool_calls) ==
    Contains(Lower(content.s), TaskComplete)

\* line 308
CompletionSignal(content, count, tool_calls) ==
    \/ Contains(Lower(content.s), TaskComplete)
    \/ (count >= 2 /\ ~Truthy(tool_calls))

\* completion tested before the tool calls are looked at
MutBranchCompletionFirst(response, count) ==
    IF /\ Truthy(response.content)
       /\ Contains(Lower(response.content.s), TaskComplete)
    THEN "done"
    ELSE IF Truthy(response.tool_calls) THEN "dispatch"
    ELSE IF Truthy(response.content) /\ count >= 2 THEN "done"
    ELSE "loop"

\* content.lower() called before content is tested: a None content raises
\* out of run()
MutBranchRaise(response, count) ==
    IF Truthy(response.tool_calls) THEN "dispatch"
    ELSE IF response.content.t = "None" THEN "raised"
    ELSE IF /\ Truthy(response.content)
            /\ \/ Contains(Lower(response.content.s), TaskComplete)
               \/ count >= 2
    THEN "done"
    ELSE "loop"

\* lines 280, 302, 305-308: where run() goes after a response, on iteration
\* `count`: into the loop over the tool calls, to the return statement of a
\* completed run, or back to the top of the while loop
Branch(response, count) ==
    IF Truthy(response.tool_calls) THEN "dispatch"
    ELSE IF /\ Truthy(response.content)
            /\ CompletionSignal(response.content, count, response.tool_calls)
    THEN "done"
    ELSE "loop"

\* lines 243-262, 271-280, 304-316: the model call returns `response`
Respond(response) ==
    /\ pc = "loop"
    /\ LoopCondition(iteration_count, max_iterations)
    /\ LET count == iteration_count + 1
           assistant_message == [role |-> "assistant",
                                 content |-> response.content,
                                 tool_calls |-> response.tool_calls]
           history == Append(conversation_history, assistant_message)
       IN  /\ iteration_count' = count
           /\ model_calls' = model_calls + 1
           /\ conversation_history' = history
           /\ message' = response
           /\ IF Branch(response, count) = "dispatch"
              THEN /\ pc' = "dispatch"
                   /\ call_index' = 1
                   /\ tool_calls_requested' =
                         tool_calls_requested + Len(response.tool_calls.l)
                   /\ UNCHANGED <<ret, terminal>>
              ELSE IF Branch(response, count) = "done"
              THEN /\ ret' = [result |-> response.content,
                              iterations |-> count,
                              conversation_history |-> history,
                              final_message |-> response.content]
                   /\ terminal' = "COMPLETED"
                   /\ pc' = "done"
                   /\ UNCHANGED <<call_index, tool_calls_requested>>
              ELSE /\ pc' = Branch(response, count)
                   /\ UNCHANGED <<call_index, tool_calls_requested, ret, terminal>>
    /\ UNCHANGED <<max_iterations, invoke>>

\* every tool message answers the first call of the turn
MutToolMessage(tool_call, tool_name, formatted_result) ==
    [role |-> "tool",
     tool_call_id |-> message.tool_calls.l[1].id,
     name |-> tool_name,
     content |-> PyStr(formatted_result)]

\* lines 294-299
ToolMessage(tool_call, tool_name, formatted_result) ==
    [role |-> "tool",
     tool_call_id |-> tool_call.id,
     name |-> tool_name,
     content |-> PyStr(formatted_result)]

\* the loop over the calls of a turn is left after a call that failed
MutDispatchTool ==
    /\ pc = "dispatch"
    /\ \E outcome \in RunOutcomes(message.tool_calls.l[call_index].name) :
       LET tool_call == message.tool_calls.l[call_index]
           tool_name == tool_call.name
           arguments == Arguments(tool_call.arguments)
           tool_result == SelfCallTool(tool_name, arguments, outcome)
           formatted_result == SelfFormatToolResult(tool_name, tool_result)
           tool_message == ToolMessage(tool_call, tool_name, formatted_result)
           ran == BodyRuns(tool_name, arguments)
       IN  /\ conversation_history' = Append(conversation_history, tool_message)
           /\ invoke' = [tool_name |-> tool_name,
                         arguments |-> arguments,
                         ran |-> ran,
                         outcome |-> IF ran THEN outcome ELSE [kind |-> "none"],
                         tool_result |-> tool_result,
                         formatted_result |-> formatted_result]
           /\ IF call_index < Len(message.tool_calls.l) /\ tool_result.success
              THEN /\ call_index' = call_index + 1
                   /\ pc' = "dispatch"
              ELSE /\ call_index' = 0
                   /\ pc' = "loop"
    /\ UNCHANGED <<max_iterations, iteration_count, message, ret, terminal,
                   model_calls, tool_calls_requested>>

\* lines 282-302: one pass of the loop over message.tool_calls
DispatchTool ==
    /\ pc = "dispatch"
    /\ \E outcome \in RunOutcomes(message.tool_calls.l[call_index].name) :
       LET tool_call == message.tool_calls.l[call_index]
           tool_name == tool_call.name
           arguments == Arguments(tool_call.arguments)
           tool_result == SelfCallTool(tool_name, arguments, outcome)
           formatted_result == SelfFormatToolResult(tool_name, tool_result)
           tool_message == ToolMessage(tool_call, tool_name, formatted_result)
           ran == BodyRuns(tool_name, arguments)
       IN  /\ conversation_history' = Append(conversation_history, tool_message)
           /\ invoke' = [tool_name |-> tool_name,
                         arguments |-> arguments,
                         ran |-> ran,
                         outcome |-> IF ran THEN outcome ELSE [kind |-> "none"],
                         tool_result |-> tool_result,
                         formatted_result |-> formatted_result]
    /\ IF call_index < Len(message.tool_calls.l)
       THEN /\ call_index' = call_index + 1
            /\ pc' = "dispatch"
       ELSE /\ call_index' = 0
            /\ pc' = "loop"
    /\ UNCHANGED <<max_iterations, iteration_count, message, ret, terminal,
                   model_calls, tool_calls_requested>>

\* src/main.py line 166: the driving loop empties the transcript of an agent
\* whose run has returned
ResetHistory ==
    /\ pc = "done"
    /\ conversation_history' = <<>>
    /\ pc' = "idle"
    /\ UNCHANGED <<max_iterations, iteration_count, message, call_index, invoke,
                   ret, terminal, model_calls, tool_calls_requested>>

\* the steps of a run that has been started
Step ==
    \/ MaxIterations
    \/ \E fault \in Faults : TransportFault(fault)
    \/ \E response \in Responses(iteration_count + 1,
                                 MaxToolCalls - tool_calls_requested,
                                 Requests) :
          Respond(response)
    \/ DispatchTool

\* one agent and a caller that runs it again and again, emptying the
\* transcript between two runs or not
Next ==
    \/ \E task \in Tasks : Run(task) /\ UNCHANGED main_vars
    \/ MaxIterations /\ UNCHANGED main_vars
    \/ \E fault \in Faults : TransportFault(fault) /\ UNCHANGED main_vars
    \/ \E response \in Responses(iteration_count + 1,
                                 MaxToolCalls - tool_calls_requested,
                                 Requests) :
          Respond(response) /\ UNCHANGED main_vars
    \/ DispatchTool /\ UNCHANGED main_vars
    \/ ResetHistory /\ UNCHANGED main_vars

Spec == Init /\ [][Next]_vars

\* the requests of the runs whose termination is checked: a call whose tool
\* returns or raises, and a call whose payload does not parse
FairRequests ==
    {[name |-> AnyTool, arguments |-> PayloadObject],
     [name |-> StrTool, arguments |-> PayloadMalformed]}

\* the steps of a run that has been started, with these requests
FairStep ==
    \/ MaxIterations /\ UNCHANGED main_vars
    \/ \E fault \in Faults : TransportFault(fault) /\ UNCHANGED main_vars
    \/ \E response \in Responses(iteration_count + 1,
                                 MaxToolCalls - tool_calls_requested,
                                 FairRequests) :
          Respond(response) /\ UNCHANGED main_vars
    \/ DispatchTool /\ UNCHANGED main_vars

\* one run on a new agent
FairNext ==
    \/ (pc = "idle" /\ Run(<<"t", "1">>) /\ UNCHANGED main_vars)
    \/ FairStep

\* every model round-trip and every tool invocation returns: a step of a
\* run that can be taken is taken
FairSpec == Init /\ [][FairNext]_vars /\ WF_vars(FairStep)

-----------------------------------------------------------------------------
(* _call_tool and _format_tool_result applied to one invocation *)

\* the **arguments of an invocation
ArgumentSets ==
    {PyDict(<< <<ParamA, PyStr(<<"x">>)>> >>),
     PyDict(<<>>),
     PyDict(<< <<(<<"b">>), PyStr(<<"x">>)>> >>),
     PyList(<<PyInt(1)>>)}

InvokeInputs ==
    {[tool_name |-> n, arguments |-> a, outcome |-> o] :
        n \in DOMAIN tools \cup {NoTool}, a \in ArgumentSets, o \in Outcomes}

InitInvoke ==
    /\ agent = "agent"
    /\ main_pc = "none"
    /\ plan_storage = [action_items |-> <<>>, current_index |-> 0]
    /\ run_log = <<>>
    /\ session_log = NoFile
    /\ schemas = <<>>
    /\ agentic_loop = NoLoop
    /\ latex_resume = NoResume
    /\ results = <<>>
    /\ pc = "invoke"
    /\ invoke \in InvokeInputs
    /\ max_iterations = 0
    /\ conversation_history = <<>>
    /\ iteration_count = 0
    /\ message = NoMessage
    /\ call_index = 0
    /\ ret = NoReturn
    /\ terminal = "none"
    /\ model_calls = 0
    /\ tool_calls_requested = 0

\* lines 290-291
InvokeTool ==
    /\ pc = "invoke"
    /\ LET tool_name == invoke.tool_name
           arguments == invoke.arguments
           tool_result == SelfCallTool(tool_name, arguments, invoke.outcome)
           formatted_result == SelfFormatToolResult(tool_name, tool_result)
           ran == BodyRuns(tool_name, arguments)
       IN  invoke' = [tool_name |-> tool_name,
                      arguments |-> arguments,
                      ran |-> ran,
                      outcome |-> IF ran THEN invoke.outcome ELSE [kind |-> "none"],
                      tool_result |-> tool_result,
                      formatted_result |-> formatted_result]
    /\ pc' = "invoked"
    /\ UNCHANGED <<max_iterations, conversation_history, iteration_count, message,
                   call_index, ret, terminal, model_calls, tool_calls_requested>>

NextInvoke == InvokeTool /\ UNCHANGED main_vars

SpecInvoke == InitInvoke /\ [][NextInvoke]_vars


-----------------------------------------------------------------------------
(* One invocation by an Agent and by an AgenticLoop *)

\* what the file tools of src/file_tools.py hand back: a dictionary with
\* the data, or {"error": ...}
DictOutcomes ==
    {Return(ErrorDict(<<"d", "e", "n", "i", "e", "d">>)),
     Return(PyDict(<< <<<<"c", "o", "u", "n", "t">>, PyInt(7)>> >>))}

VariantInputs ==
    {[tool_name |-> n, arguments |-> a, outcome |-> o] :
        n \in DOMAIN sample_tools \cup {NoTool}, a \in ArgumentSets,
        o \in Outcomes \cup DictOutcomes}

\* an Agent or an AgenticLoop has been constructed with the sample tools
InitVariants ==
    /\ agent \in {"agent", "loop"}
    /\ main_pc = "none"
    /\ plan_storage = [action_items |-> <<>>, current_index |-> 0]
    /\ run_log = <<>>
    /\ session_log = IF agent = "loop" THEN InitialLog ELSE NoFile
    /\ schemas = <<>>
    /\ agentic_loop = NoLoop
    /\ latex_resume = NoResume
    /\ results = <<>>
    /\ pc = "invoke"
    /\ invoke \in VariantInputs
    /\ max_iterations = 0
    /\ conversation_history = <<>>
    /\ iteration_count = 0
    /\ message = NoMessage
    /\ call_index = 0
    /\ ret = NoReturn
    /\ terminal = "none"
    /\ model_calls = 0
    /\ tool_calls_requested = 0

SpecVariants == InitVariants /\ [][NextInvoke]_vars

-----------------------------------------------------------------------------
(* _get_tool_schemas of Agent and of AgenticLoop *)

\* how many times the schemas are derived in a row
MaxDerivations == 2

RECURSIVE SplitLines(_)
\* s.split('\n')
SplitLines(s) ==
    IF \A i \in 1..Len(s) : s[i] # "\n" THEN <<s>>
    ELSE LET k == CHOOSE i \in 1..Len(s) :
                     s[i] = "\n" /\ \A j \in 1..(i - 1) : s[j] # "\n"
         IN  <<SubSeq(s, 1, k - 1)>> \o SplitLines(SubSeq(s, k + 1, Len(s)))

RECURSIVE LStrip(_)
\* s.lstrip() of a text whose only blanks are spaces
LStrip(s) == IF Len(s) > 0 /\ s[1] = " " THEN LStrip(Tail(s)) ELSE s

RECURSIVE DropEmptyLast(_)
\* while lines and not lines[-1]: lines.pop()
DropEmptyLast(lines) ==
    IF Len(lines) > 0 /\ Len(lines[Len(lines)]) = 0
    THEN DropEmptyLast(SubSeq(lines, 1, Len(lines) - 1))
    ELSE lines

RECURSIVE DropEmptyFirst(_)
\* while lines and not lines[0]: lines.pop(0)
DropEmptyFirst(lines) ==
    IF Len(lines) > 0 /\ Len(lines[1]) = 0
    THEN DropEmptyFirst(Tail(lines))
    ELSE lines

\* inspect.cleandoc(doc): the first line stripped on the left, the common
\* indentation of the other lines removed, empty lines at both ends dropped
CleanDoc(doc) ==
    LET lines == SplitLines(doc)
        content == {i \in 2..Len(lines) : Len(LStrip(lines[i])) > 0}
        indent(i) == Len(lines[i]) - Len(LStrip(lines[i]))
        margin == IF content = {} THEN 0
                  ELSE indent(CHOOSE i \in content :
                                 \A j \in content : indent(i) <= indent(j))
        cut == [i \in 1..Len(lines) |->
                  IF i = 1 THEN LStrip(lines[1])
                  ELSE SubSeq(lines[i], margin + 1, Len(lines[i]))]
    IN  Join(DropEmptyFirst(DropEmptyLast(cut)), <<"\n">>)

\* a parameter of a callable as inspect.signature gives it: its name, its
\* annotation and whether it has a default
Param(name, annotation, has_default) ==
    [name |-> name, annotation |-> annotation, default |-> has_default]

\* a callable: its parameters in order and its __doc__ (None or a text)
Def(params, doc) == [params |-> params, doc |-> doc]

\* src/agent.py lines 73-82: the type tag of a parameter
ParamType(annotation) ==
    IF annotation = AnnEmpty THEN <<"s", "t", "r", "i", "n", "g">>
    ELSE IF annotation = AnnClass("int") THEN <<"i", "n", "t", "e", "g", "e", "r">>
    ELSE IF annotation = AnnClass("float") THEN <<"n", "u", "m", "b", "e", "r">>
    ELSE IF annotation = AnnClass("bool") THEN <<"b", "o", "o", "l", "e", "a", "n">>
    ELSE IF annotation = AnnClass("list") \/ annotation = AnnGeneric("list", <<>>)
    THEN <<"a", "r", "r", "a", "y">>
    ELSE <<"s", "t", "r", "i", "n", "g">>

\* src/agent.py lines 69-71: the parameters but the one named self
SchemaParams(tool_func) ==
    SelectSeq(tool_func.params, LAMBDA param : param.name # <<"s", "e", "l", "f">>)

\* src/agent.py lines 66-87: the dictionary `properties`, in insertion order
Properties(tool_func) ==
    LET params == SchemaParams(tool_func) IN
    [i \in 1..Len(params) |->
        <<params[i].name,
          [type |-> ParamType(params[i].annotation),
           description |-> <<"P", "a", "r", "a", "m", "e", "t", "e", "r", " ">> \o params[i].name]>>]

\* src/agent.py lines 67, 89-90: the list `required`
RequiredList(tool_func) ==
    LET params == SelectSeq(SchemaParams(tool_func), LAMBDA param : ~param.default)
    IN  [i \in 1..Len(params) |-> params[i].name]

\* src/agent.py lines 92-103
Schema(tool_name, description, tool_func) ==
    [type |-> <<"f", "u", "n", "c", "t", "i", "o", "n">>,
     function |->
        [name |-> tool_name,
         description |-> description,
         parameters |-> [type |-> <<"o", "b", "j", "e", "c", "t">>,
                         properties |-> Properties(tool_func),
                         required |-> RequiredList(tool_func)]]]

\* src/agent.py lines 63, 96: inspect.getdoc(tool_func) or "", whole
Description(tool_name, tool_func) ==
    LET doc == IF tool_func.doc = PyNone THEN <<>> ELSE CleanDoc(tool_func.doc.s)
    IN  IF Len(doc) > 0 THEN doc ELSE <<"T", "o", "o", "l", ":", " ">> \o tool_name

\* src/resume_creation_agent.py lines 75, 108: tool_func.__doc__ or "", its
\* first line
LoopDescription(tool_name, tool_func) ==
    LET doc == IF tool_func.doc = PyNone THEN <<>> ELSE tool_func.doc.s
    IN  IF Len(doc) > 0 THEN SplitLines(doc)[1] ELSE <<"T", "o", "o", "l", ":", " ">> \o tool_name

\* Agent._get_tool_schemas on the mapping whose items are `items`
GetToolSchemas(items) ==
    [i \in 1..Len(items) |->
        Schema(items[i][1], Description(items[i][1], items[i][2]), items[i][2])]

\* AgenticLoop._get_tool_schemas
LoopGetToolSchemas(items) ==
    [i \in 1..Len(items) |->
        Schema(items[i][1], LoopDescription(items[i][1], items[i][2]), items[i][2])]

\* self._get_tool_schemas
SelfGetToolSchemas(items) ==
    IF agent = "loop" THEN LoopGetToolSchemas(items) ELSE GetToolSchemas(items)

\* typing.List[str] and list[str]
ListOfStr == AnnGeneric("list", <<"str">>)

\* src/resume_creation_agent.py lines 312-318: the tools of src/file_tools.py
\* (the docstrings are cut after their first paragraph)
file_tools ==
    << <<<<"g", "e", "t", "_", "f", "i", "l", "e", "_", "l", "i", "n", "e", "_", "c", "o", "u", "n", "t">>,
         Def(<<Param(<<"f", "i", "l", "e", "p", "a", "t", "h">>, AnnClass("str"), FALSE)>>,
             PyStr(<<"\n", " ", " ", " ", " ", "G", "e", "t", " ", "t", "h", "e", " ", "t", "o", "t", "a", "l", " ", "n", "u", "m", "b", "e", "r", " ", "o", "f", " ", "l", "i", "n", "e", "s", " ", "i", "n", " ", "a", " ", "f", "i", "l", "e", "\n", " ", " ", " ", " ">>))>>,
       <<<<"l", "i", "s", "t", "_", "d", "i", "r">>,
         Def(<<Param(<<"p", "a", "t", "h">>, AnnClass("str"), FALSE)>>,
             PyStr(<<"L", "i", "s", "t", " ", "d", "i", "r", "e", "c", "t", "o", "r", "y", " ", "c", "o", "n", "t", "e", "n", "t", "s", " ", "w", "i", "t", "h", " ", "f", "i", "l", "e", " ", "t", "y", "p", "e", " ", "i", "n", "f", "o", "r", "m", "a", "t", "i", "o", "n">>))>>,
       <<<<"s", "e", "a", "r", "c", "h", "_", "i", "n", "_", "f", "i", "l", "e">>,
         Def(<<Param(<<"f", "i", "l", "e", "p", "a", "t", "h">>, AnnClass("str"), FALSE),
               Param(<<"q", "u", "e", "r", "y">>, AnnClass("str"), FALSE)>>,
             PyStr(<<"\n", " ", " ", " ", " ", "S", "e", "a", "r", "c", "h", " ", "f", "o", "r", " ", "a", " ", "q", "u", "e", "r", "y", " ", "s", "t", "r", "i", "n", "g", " ", "w", "i", "t", "h", "i", "n", " ", "a", " ", "f", "i", "l", "e", "'", "s", " ", "c", "o", "n", "t", "e", "n", "t", "s", "\n", " ", " ", " ", " ">>))>>,
       <<<<"r", "e", "a", "d", "_", "f", "i", "l", "e", "_", "l", "i", "n", "e", "s">>,
         Def(<<Param(<<"f", "i", "l", "e", "p", "a", "t", "h">>, AnnClass("str"), FALSE),
               Param(<<"s", "t", "a", "r", "t", "_", "l", "i", "n", "e">>, AnnClass("int"), FALSE),
               Param(<<"e", "n", "d", "_", "l", "i", "n", "e">>, AnnClass("int"), FALSE)>>,
             PyStr(<<"\n", " ", " ", " ", " ", "R", "e", "a", "d", " ", "s", "p", "e", "c", "i", "f", "i", "c", " ", "l", "i", "n", "e", "s", " ", "f", "r", "o", "m", " ", "a", " ", "f", "i", "l", "e", " ", "(", "0", "-", "i", "n", "d", "e", "x", "e", "d", ",", " ", "i", "n", "c", "l", "u", "s", "i", "v", "e", ")", "\n", " ", " ", " ", " ">>))>>,
       <<<<"w", "r", "i", "t", "e", "_", "f", "i", "l", "e", "_", "l", "i", "n", "e", "s">>,
         Def(<<Param(<<"f", "i", "l", "e", "p", "a", "t", "h">>, AnnClass("str"), FALSE),
               Param(<<"s", "t", "a", "r", "t", "_", "l", "i", "n", "e">>, AnnClass("int"), FALSE),
               Param(<<"e", "n", "d", "_", "l", "i", "n", "e">>, AnnClass("int"), FALSE),
               Param(<<"n", "e", "w", "_", "c", "o", "n", "t", "e", "n", "t">>, ListOfStr, FALSE)>>,
             PyStr(<<"\n", " ", " ", " ", " ", "R", "e", "p", "l", "a", "c", "e", " ", "a", " ", "r", "a", "n", "g", "e", " ", "o", "f", " ", "l", "i", "n", "e", "s", " ", "i", "n", " ", "a", " ", "f", "i", "l", "e", " ", "w", "i", "t", "h", " ", "n", "e", "w", " ", "c", "o", "n", "t", "e", "n", "t", " ", "(", "1", "-", "i", "n", "d", "e", "x", "e", "d", ",", " ", "i", "n", "c", "l", "u", "s", "i", "v", "e", ")", "\n", " ", " ", " ", " ">>))>> >>

\* src/main.py lines 34-41: the mapping of the planner
planner_items ==
    << <<AddActionItem,
         Def(<<Param(ActionItemParam, AnnClass("str"), FALSE)>>,
             PyStr(<<"A", "d", "d", " ", "a", "n", " ", "a", "c", "t", "i", "o", "n", " ", "i", "t", "e", "m", " ", "t", "o", " ", "t", "h", "e", " ", "e", "x", "e", "c", "u", "t", "i", "o", "n", " ", "p", "l", "a", "n">>))>> >>

\* the annotations of a parameter: none, int, float, bool, list, typing.List,
\* List[str], str, the text 'str' of a postponed annotation, typing.Dict
ParamAnnotations ==
    {AnnEmpty, AnnClass("int"), AnnClass("float"), AnnClass("bool"),
     AnnClass("list"), AnnGeneric("list", <<>>), ListOfStr, AnnClass("str"),
     AnnText(<<"s", "t", "r">>), AnnGeneric("dict", <<>>)}

\* __doc__ of a callable: none, empty, one line, and an indented text that
\* starts on the line after the quotes
Docs ==
    {PyNone, PyStr(<<>>), PyStr(<<"D", "o", "c">>), PyStr(<<"\n", " ", " ", " ", " ", "D", "o", "c", "\n", "\n", " ", " ", " ", " ", "m", "o", "r", "e", "\n", " ", " ", " ", " ">>)}

TypedTool == <<"t", "y", "p", "e", "d", "_", "t", "o", "o", "l">>

\* mappings of one tool with one parameter `p`, declared with or without a
\* first parameter named self
TypedMappings ==
    {<< <<TypedTool,
          Def((IF with_self THEN <<Param(<<"s", "e", "l", "f">>, AnnEmpty, FALSE)>> ELSE <<>>)
              \o <<Param(<<"p">>, annotation, has_default)>>, doc)>> >> :
        with_self \in BOOLEAN, annotation \in ParamAnnotations,
        has_default \in BOOLEAN, doc \in Docs}

\* the tool mappings the schemas are derived from
SchemaMappings == {file_tools, planner_items} \cup TypedMappings

\* an agent of either class with one of the mappings is at line 247 of the
\* first pass of run(): the transcript holds the system and the user message
InitSchemas ==
    /\ agent \in {"agent", "loop"}
    /\ main_pc = "none"
    /\ plan_storage = [action_items |-> <<>>, current_index |-> 0]
    /\ run_log = <<>>
    /\ session_log = IF agent = "loop" THEN InitialLog ELSE NoFile
    /\ schemas = <<>>
    /\ agentic_loop = NoLoop
    /\ latex_resume = NoResume
    /\ results = <<>>
    /\ pc = "derive"
    /\ invoke \in {[tools |-> items] : items \in SchemaMappings}
    /\ max_iterations = MaxCap
    /\ conversation_history =
          <<[role |-> "system", content |-> PyStr(system_prompt)],
            [role |-> "user", content |-> PyStr(<<"t", "1">>)]>>
    /\ iteration_count = 1
    /\ message = NoMessage
    /\ call_index = 0
    /\ ret = NoReturn
    /\ terminal = "none"
    /\ model_calls = 0
    /\ tool_calls_requested = 0

\* the derivation also drops the first tool of the mapping
MutDeriveSchemas ==
    /\ pc = "derive"
    /\ Len(schemas) < MaxDerivations
    /\ schemas' = Append(schemas, SelfGetToolSchemas(invoke.tools))
    /\ invoke' = [tools |-> Tail(invoke.tools)]
    /\ UNCHANGED <<pc, max_iterations, conversation_history, iteration_count,
                   message, call_index, ret, terminal, model_calls,
                   tool_calls_requested, agent, main_pc, plan_storage, run_log,
                   session_log, agentic_loop, latex_resume, results>>

\* line 247: self._get_tool_schemas() is called and returns
DeriveSchemas ==
    /\ pc = "derive"
    /\ Len(schemas) < MaxDerivations
    /\ schemas' = Append(schemas, SelfGetToolSchemas(invoke.tools))
    /\ UNCHANGED <<pc, max_iterations, conversation_history, iteration_count,
                   message, call_index, invoke, ret, terminal, model_calls,
                   tool_calls_requested, agent, main_pc, plan_storage, run_log,
                   session_log, agentic_loop, latex_resume, results>>

NextSchemas == DeriveSchemas

SpecSchemas == InitSchemas /\ [][NextSchemas]_vars

-----------------------------------------------------------------------------
(* One agent run again and again, the runs logged *)

\* the entry of run_log for a run() call
RunEntry(name, item, task) == [agent |-> name, item |-> item, task |-> task]

\* the caller calls run(task)
LoggedRun(task) ==
    /\ Len(run_log) < MaxRuns
    /\ Run(task)
    /\ run_log' = Append(run_log, RunEntry(agent, Len(run_log), task))
    /\ UNCHANGED <<agent, main_pc, plan_storage, session_log, schemas, agentic_loop, latex_resume, results>>

NextRuns ==
    \/ \E task \in Tasks : LoggedRun(task)
    \/ FairStep
    \/ ResetHistory /\ UNCHANGED main_vars

SpecRuns == Init /\ [][NextRuns]_vars

-----------------------------------------------------------------------------
(* The session log of an AgenticLoop *)

\* how many interactions the log file may hold
MaxSaves == 2

\* the responses of the model behind the AgenticLoop: a plain answer, the
\* completion phrase and a turn that requests one tool call
LogResponses(turn) ==
    {[content |-> PyStr(<<"o", "k">>), tool_calls |-> PyNone],
     [content |-> PyStr(<<"T", "a", "s", "k", " ", "C", "o", "m", "p", "l", "e", "t", "e">>), tool_calls |-> PyNone],
     [content |-> PyNone,
      tool_calls |-> ToolCallList(turn, <<[name |-> StrTool,
                                           arguments |-> PayloadObject]>>)]}

\* src/resume_creation_agent.py lines 27-66: an AgenticLoop has been
\* constructed and _initialize_session_log has written the log file
InitLog ==
    /\ agent = "loop"
    /\ main_pc = "none"
    /\ plan_storage = [action_items |-> <<>>, current_index |-> 0]
    /\ run_log = <<>>
    /\ session_log = InitialLog
    /\ schemas = <<>>
    /\ agentic_loop = NoLoop
    /\ latex_resume = NoResume
    /\ results = <<>>
    /\ pc = "idle"
    /\ max_iterations = MaxCap
    /\ conversation_history = <<>>
    /\ iteration_count = 0
    /\ message = NoMessage
    /\ call_index = 0
    /\ invoke = NoInvoke
    /\ ret = NoReturn
    /\ terminal = "none"
    /\ model_calls = 0
    /\ tool_calls_requested = 0

\* src/resume_creation_agent.py lines 292-296
Interaction ==
    [iteration_count |-> iteration_count,
     conversation_history |-> conversation_history]

\* src/resume_creation_agent.py lines 275-307: the caller calls save_log()
\* while no run is going on; the file is read, the interaction is appended
\* and the file is written back
SaveLog ==
    /\ pc \in {"idle", "done"}
    /\ Len(session_log.interactions) < MaxSaves
    /\ session_log' =
          [session_log EXCEPT !.interactions = Append(@, Interaction)]
    /\ UNCHANGED <<pc, max_iterations, conversation_history, iteration_count,
                   message, call_index, invoke, ret, terminal, model_calls,
                   tool_calls_requested, agent, main_pc, plan_storage, run_log,
                   schemas, agentic_loop, latex_resume, results>>

NextLog ==
    \/ \E task \in Tasks : LoggedRun(task)
    \/ MaxIterations /\ UNCHANGED main_vars
    \/ \E fault \in Faults : TransportFault(fault) /\ UNCHANGED main_vars
    \/ \E response \in LogResponses(iteration_count + 1) :
          Respond(response) /\ UNCHANGED main_vars
    \/ DispatchTool /\ UNCHANGED main_vars
    \/ SaveLog

SpecLog == InitLog /\ [][NextLog]_vars

-----------------------------------------------------------------------------
(* The driving loop of src/main.py *)

\* user_prompt, cut to its first words
user_prompt == <<"C", "r", "e", "a", "t", "e", " ", "a", " ", "r", "e", "s",
                 "u", "m", "e", " ", "u", "s", "i", "n", "g", " ", "t", "h",
                 "i", "s", " ", "j", "o", "b", " ", "d", "e", "s", "c", "r",
                 "i", "p", "t", "i", "o", "n">>

\* the contents of experience.txt
experience_data == <<"e", "x", "p">>

\* the prompt of the executor also quotes the task the planner was given
MutExecutorPrompt(action_item) ==
    <<"G", "i", "v", "e", "n", " ", "t", "h", "i", "s", " ", "e", "x", "e", "p", "e", "r", "i", "e", "n", "c", "e", " ", "d", "a", "t", "a", " ", "f", "r", "o", "m", " ", "t", "h", "e", " ", "u", "s", "e", "r", ":", "\n">>
    \o experience_data
    \o <<"\n", "\n", "E", "x", "e", "c", "u", "t", "e", " ", "t", "h", "i", "s", " ", "a", "c", "t", "i", "o", "n", " ", "i", "t", "e", "m", ",", " ", "f", "o", "l", "l", "o", "w", "i", "n", "g", " ", "t", "h", "e", " ", "g", "u", "i", "d", "e", "l", "i", "n", "e", "s", " ", "p", "r", "o", "v", "i", "d", "e", "d", ":", "\n">>
    \o Str(action_item)
    \o <<"\n", "\n">>
    \o run_log[1].task

\* src/main.py line 146
ExecutorPrompt(action_item) ==
    <<"G", "i", "v", "e", "n", " ", "t", "h", "i", "s", " ", "e", "x", "e",
      "p", "e", "r", "i", "e", "n", "c", "e", " ", "d", "a", "t", "a", " ",
      "f", "r", "o", "m", " ", "t", "h", "e", " ", "u", "s", "e", "r", ":",
      "\n">>
    \o experience_data
    \o <<"\n", "\n", "E", "x", "e", "c", "u", "t", "e", " ", "t", "h", "i",
         "s", " ", "a", "c", "t", "i", "o", "n", " ", "i", "t", "e", "m",
         ",", " ", "f", "o", "l", "l", "o", "w", "i", "n", "g", " ", "t",
         "h", "e", " ", "g", "u", "i", "d", "e", "l", "i", "n", "e", "s",
         " ", "p", "r", "o", "v", "i", "d", "e", "d", ":", "\n">>
    \o Str(action_item)
    \o <<"\n", "\n">>

\* what the planner model asks for: the append tool with two instruction
\* texts, with a number as the item and with a payload that does not parse
PlannerRequests ==
    {[name |-> AddActionItem, arguments |-> PayloadItem1],
     [name |-> AddActionItem, arguments |-> PayloadItem2],
     [name |-> AddActionItem, arguments |-> PayloadItemInt],
     [name |-> AddActionItem, arguments |-> PayloadMalformed]}

\* what the executor model asks for: a tool of its own mapping and the
\* append tool, which its mapping does not hold
ExecutorRequests ==
    {[name |-> ReportWeakness, arguments |-> PayloadInformation],
     [name |-> AddActionItem, arguments |-> PayloadItem1]}

\* the text the prompt of src/main.py line 97 asks the executor to answer
TaskCompleteUnderscore == <<"t", "a", "s", "k", "_", "c", "o", "m", "p", "l",
                            "e", "t", "e">>

\* the last answer of the model was empty: no text and no tool calls
Degenerate(h) ==
    /\ Len(h) > 0
    /\ h[Len(h)].role = "assistant"
    /\ h[Len(h)].content = PyNone
    /\ ~Truthy(h[Len(h)].tool_calls)

\* the responses of the model behind the planner and behind the executor:
\* text answers (None, and the completion text each prompt asks for) and
\* tool-call turns; a model that has given an empty answer goes on giving
\* empty answers
MainResponses(turn, budget) ==
    IF Degenerate(conversation_history)
    THEN {[content |-> PyNone, tool_calls |-> PyNone]}
    ELSE {[content |-> c, tool_calls |-> PyNone] :
            c \in {PyNone,
                   PyStr(IF agent = "planner" THEN TaskComplete
                         ELSE TaskCompleteUnderscore)}}
         \cup {[content |-> PyNone, tool_calls |-> ToolCallList(turn, reqs)] :
                 reqs \in RequestLists(IF agent = "planner" THEN PlannerRequests
                                       ELSE ExecutorRequests, budget)}

\* src/main.py lines 23-135: both agents are constructed, the plan is empty
InitMain ==
    /\ agent = "planner"
    /\ main_pc = "start"
    /\ plan_storage = [action_items |-> <<>>, current_index |-> 0]
    /\ run_log = <<>>
    /\ session_log = NoFile
    /\ schemas = <<>>
    /\ agentic_loop = NoLoop
    /\ latex_resume = NoResume
    /\ results = <<>>
    /\ pc = "idle"
    /\ max_iterations = PlannerMaxIterations
    /\ conversation_history = <<>>
    /\ iteration_count = 0
    /\ message = NoMessage
    /\ call_index = 0
    /\ invoke = NoInvoke
    /\ ret = NoReturn
    /\ terminal = "none"
    /\ model_calls = 0
    /\ tool_calls_requested = 0

\* src/main.py line 138: planner.run(user_prompt) is called
PlannerRun ==
    /\ main_pc = "start"
    /\ Run(user_prompt)
    /\ main_pc' = "planner"
    /\ run_log' = Append(run_log, RunEntry("planner", -1, user_prompt))
    /\ UNCHANGED <<agent, plan_storage, session_log, schemas, agentic_loop, latex_resume, results>>

\* a run() call of the driving loop is in progress
Running == main_pc \in {"planner", "executor"}

\* what the tool bodies do to the plan: add_action_item appends
ToolEffects ==
    plan_storage' =
        IF invoke'.ran /\ invoke'.tool_name = AddActionItem
        THEN [plan_storage EXCEPT
                !.action_items =
                    add_action_item(Arg(invoke'.arguments, ActionItemParam)).action_items]
        ELSE plan_storage

\* src/main.py lines 138-144: planner.run has returned; the driving loop goes
\* on to the executor, an agent constructed at lines 119-124 and not run yet
PlannerReturn ==
    /\ main_pc = "planner"
    /\ pc = "done"
    /\ main_pc' = "drain"
    /\ agent' = "executor"
    /\ pc' = "idle"
    /\ max_iterations' = ExecutorMaxIterations
    /\ conversation_history' = <<>>
    /\ iteration_count' = 0
    /\ message' = NoMessage
    /\ call_index' = 0
    /\ invoke' = NoInvoke
    /\ ret' = NoReturn
    /\ terminal' = "none"
    /\ model_calls' = 0
    /\ tool_calls_requested' = 0
    /\ UNCHANGED <<plan_storage, run_log, session_log, schemas, agentic_loop, latex_resume, results>>

\* the cursor moves on by two
MutAdvance(current_index) == current_index + 2

\* src/main.py line 165
Advance(current_index) == current_index + 1

\* the loop is left after an executor run that did not complete
MutDrainCondition(storage) ==
    /\ storage.current_index < Len(storage.action_items)
    /\ terminal \notin {"MAX_ITERATIONS", "TRANSPORT_ERROR"}

\* src/main.py line 144: the condition of the while loop
DrainCondition(storage) == storage.current_index < Len(storage.action_items)

\* src/main.py lines 144-147: executor.run on the item under the cursor
ExecutorRun ==
    /\ main_pc = "drain"
    /\ DrainCondition(plan_storage)
    /\ LET action_item == plan_storage.action_items[plan_storage.current_index + 1]
           executor_prompt == ExecutorPrompt(action_item)
       IN  /\ Run(executor_prompt)
           /\ run_log' = Append(run_log,
                                RunEntry("executor", plan_storage.current_index,
                                         executor_prompt))
    /\ main_pc' = "executor"
    /\ UNCHANGED <<agent, plan_storage, session_log, schemas, agentic_loop, latex_resume, results>>

\* src/main.py lines 147-168: executor.run has returned; the cursor moves on
\* and the transcript of the executor is emptied
ExecutorReturn ==
    /\ main_pc = "executor"
    /\ ResetHistory
    /\ plan_storage' =
          [plan_storage EXCEPT !.current_index = Advance(plan_storage.current_index)]
    /\ main_pc' = "drain"
    /\ UNCHANGED <<agent, run_log, session_log, schemas, agentic_loop, latex_resume, results>>

\* src/main.py line 144: the while condition fails, the program ends
DrainEnd ==
    /\ main_pc = "drain"
    /\ ~DrainCondition(plan_storage)
    /\ main_pc' = "end"
    /\ UNCHANGED <<pc, max_iterations, conversation_history, iteration_count,
                   message, call_index, invoke, ret, terminal, model_calls,
                   tool_calls_requested, agent, plan_storage, run_log,
                   session_log, schemas, agentic_loop, latex_resume, results>>

\* the steps of the driving loop after planner.run has been called
MainSteps ==
    \/ Running /\ MaxIterations /\ UNCHANGED main_vars
    \/ \E fault \in Faults : Running /\ TransportFault(fault) /\ UNCHANGED main_vars
    \/ \E response \in MainResponses(iteration_count + 1,
                                     MaxToolCalls - tool_calls_requested) :
          Running /\ Respond(response) /\ UNCHANGED main_vars
    \/ Running /\ DispatchTool /\ ToolEffects
          /\ UNCHANGED <<agent, main_pc, run_log, session_log, schemas, agentic_loop, latex_resume, results>>
    \/ PlannerReturn
    \/ ExecutorRun
    \/ ExecutorReturn
    \/ DrainEnd

NextMain ==
    \/ PlannerRun
    \/ MainSteps

SpecMain == InitMain /\ [][NextMain]_vars

-----------------------------------------------------------------------------
(* The driving loop run on different job descriptions *)

\* the job description texts put between the backticks of lines 131-133
JobDescriptions == {<<"j", "o", "b", " ", "A">>, <<"j", "o", "b", " ", "B">>}

\* src/main.py lines 127-135: the f-string that holds the job description
UserPromptFor(job) == user_prompt \o <<"\n">> \o job

\* src/main.py line 138: planner.run is called with the prompt built from
\* the job description `job`
PlannerRunFor(job) ==
    /\ main_pc = "start"
    /\ Run(UserPromptFor(job))
    /\ main_pc' = "planner"
    /\ run_log' = Append(run_log, RunEntry("planner", -1, UserPromptFor(job)))
    /\ UNCHANGED <<agent, plan_storage, session_log, schemas, agentic_loop, latex_resume, results>>

NextJobs ==
    \/ \E job \in JobDescriptions : PlannerRunFor(job)
    \/ MainSteps

SpecJobs == InitMain /\ [][NextJobs]_vars

-----------------------------------------------------------------------------
(* Agent.run and AgenticLoop.run of src/resume_creation_agent.py given the  *)
(* same inputs                                                               *)

\* src/resume_creation_agent.py lines 56-63: the fields of a new AgenticLoop
NewLoop(cap) ==
    [pc |-> "idle",
     max_iterations |-> cap,
     conversation_history |-> <<>>,
     iteration_count |-> 0,
     message |-> NoMessage,
     call_index |-> 0,
     ret |-> NoReturn,
     terminal |-> "none"]

\* the AgenticLoop is not where the input it is given can be consumed
Diverged(l) == [l EXCEPT !.pc = "diverged"]

\* src/resume_creation_agent.py lines 152-161
LoopRun(l, task) ==
    IF l.pc \in {"idle", "done"}
    THEN [l EXCEPT
            !.conversation_history =
                <<[role |-> "system", content |-> PyStr(system_prompt)],
                  [role |-> "user", content |-> PyStr(task)]>>,
            !.iteration_count = 0,
            !.pc = "loop",
            !.message = NoMessage,
            !.call_index = 0,
            !.ret = NoReturn,
            !.terminal = "none"]
    ELSE Diverged(l)

\* the AgenticLoop enters its while loop once more than the cap allows
MutLoopMaxIterations(l) ==
    IF l.pc = "loop" /\ ~(l.iteration_count < l.max_iterations + 1)
    THEN LET h == l.conversation_history
             final_message == Get(h[Len(h)], "content", PyStr(MaxIterationsText))
         IN  [l EXCEPT
                !.ret = [result |-> final_message,
                         iterations |-> l.iteration_count,
                         conversation_history |-> h,
                         final_message |-> final_message,
                         warning |-> PyStr(MaxIterationsText)],
                !.terminal = "MAX_ITERATIONS",
                !.pc = "done"]
    ELSE Diverged(l)

\* src/resume_creation_agent.py lines 163, 239-249: the while condition fails
LoopMaxIterations(l) ==
    IF l.pc = "loop" /\ ~(l.iteration_count < l.max_iterations)
    THEN LET h == l.conversation_history
             final_message == Get(h[Len(h)], "content", PyStr(MaxIterationsText))
         IN  [l EXCEPT
                !.ret = [result |-> final_message,
                         iterations |-> l.iteration_count,
                         conversation_history |-> h,
                         final_message |-> final_message,
                         warning |-> PyStr(MaxIterationsText)],
                !.terminal = "MAX_ITERATIONS",
                !.pc = "done"]
    ELSE Diverged(l)

\* src/resume_creation_agent.py lines 163-189: the model call raises
LoopTransportFault(l, fault) ==
    IF l.pc = "loop" /\ l.iteration_count < l.max_iterations
    THEN [l EXCEPT
            !.iteration_count = l.iteration_count + 1,
            !.ret = [result |-> PyNone,
                     error |-> PyStr(fault),
                     iterations |-> l.iteration_count + 1,
                     conversation_history |-> l.conversation_history],
            !.terminal = "TRANSPORT_ERROR",
            !.pc = "done"]
    ELSE Diverged(l)

\* src/resume_creation_agent.py lines 163-182, 191-200, 224-236: the model
\* call returns `response`
LoopRespond(l, response) ==
    IF l.pc = "loop" /\ l.iteration_count < l.max_iterations
    THEN LET count == l.iteration_count + 1
             assistant_message == [role |-> "assistant",
                                   content |-> response.content,
                                   tool_calls |-> response.tool_calls]
             history == Append(l.conversation_history, assistant_message)
             turn == [l EXCEPT !.iteration_count = count,
                               !.conversation_history = history,
                               !.message = response]
         IN  IF Truthy(response.tool_calls)
             THEN [turn EXCEPT !.pc = "dispatch", !.call_index = 1]
             ELSE IF /\ Truthy(response.content)
                     /\ \/ Contains(Lower(response.content.s), TaskComplete)
                        \/ (count >= 2 /\ ~Truthy(response.tool_calls))
             THEN [turn EXCEPT
                     !.ret = [result |-> response.content,
                              iterations |-> count,
                              conversation_history |-> history,
                              final_message |-> response.content],
                     !.terminal = "COMPLETED",
                     !.pc = "done"]
             ELSE turn
    ELSE Diverged(l)

\* src/resume_creation_agent.py lines 202-222: one pass of the loop over
\* message.tool_calls, the tool doing `outcome` if its body runs
LoopDispatchTool(l, outcome) ==
    IF l.pc = "dispatch"
    THEN LET tool_call == l.message.tool_calls.l[l.call_index]
             tool_name == tool_call.name
             arguments == Arguments(tool_call.arguments)
             tool_result == LoopCallTool(tool_name, arguments, outcome)
             formatted_result == LoopFormatToolResult(tool_name, tool_result)
             tool_message == [role |-> "tool",
                              tool_call_id |-> tool_call.id,
                              name |-> tool_name,
                              content |-> PyStr(formatted_result)]
             called == [l EXCEPT !.conversation_history = Append(@, tool_message)]
         IN  IF l.call_index < Len(l.message.tool_calls.l)
             THEN [called EXCEPT !.call_index = l.call_index + 1]
             ELSE [called EXCEPT !.call_index = 0, !.pc = "loop"]
    ELSE Diverged(l)

\* the requests of the model behind both agents: an unregistered name, a
\* call whose tool returns or raises, and a call whose payload does not parse
PairRequests ==
    {[name |-> NoTool, arguments |-> PayloadObject],
     [name |-> AnyTool, arguments |-> PayloadObject],
     [name |-> StrTool, arguments |-> PayloadMalformed]}

\* an Agent and an AgenticLoop constructed with the same prompt, the same
\* tool mapping and the same cap
InitPair ==
    /\ pc = "idle"
    /\ max_iterations \in Caps
    /\ conversation_history = <<>>
    /\ iteration_count = 0
    /\ message = NoMessage
    /\ call_index = 0
    /\ invoke = NoInvoke
    /\ ret = NoReturn
    /\ terminal = "none"
    /\ model_calls = 0
    /\ tool_calls_requested = 0
    /\ agent = "agent"
    /\ main_pc = "none"
    /\ plan_storage = [action_items |-> <<>>, current_index |-> 0]
    /\ run_log = <<>>
    /\ session_log = NoFile
    /\ schemas = <<>>
    /\ agentic_loop = NewLoop(max_iterations)
    /\ latex_resume = NoResume
    /\ results = <<>>

\* what a step of the pair leaves alone
pair_vars == <<agent, main_pc, plan_storage, run_log, session_log, schemas,
               latex_resume, results>>

\* run(task) is called on both
PairRun(task) ==
    /\ Run(task)
    /\ agentic_loop' = LoopRun(agentic_loop, task)
    /\ UNCHANGED pair_vars

\* neither is given anything: both are at the top of the while loop
PairMaxIterations ==
    /\ MaxIterations
    /\ agentic_loop' = LoopMaxIterations(agentic_loop)
    /\ UNCHANGED pair_vars

\* the model call of both raises `fault`
PairTransportFault(fault) ==
    /\ TransportFault(fault)
    /\ agentic_loop' = LoopTransportFault(agentic_loop, fault)
    /\ UNCHANGED pair_vars

\* the model gives both the same response
PairRespond(response) ==
    /\ Respond(response)
    /\ agentic_loop' = LoopRespond(agentic_loop, response)
    /\ UNCHANGED pair_vars

\* the tool called by both does the same
PairDispatchTool ==
    /\ DispatchTool
    /\ agentic_loop' =
          LoopDispatchTool(agentic_loop,
                           IF invoke'.ran THEN invoke'.outcome ELSE Return(PyNone))
    /\ UNCHANGED pair_vars

NextPair ==
    \/ \E task \in Tasks : PairRun(task)
    \/ PairMaxIterations
    \/ \E fault \in Faults : PairTransportFault(fault)
    \/ \E response \in Responses(iteration_count + 1,
                                 MaxToolCalls - tool_calls_requested,
                                 PairRequests) :
          PairRespond(response)
    \/ PairDispatchTool

SpecPair == InitPair /\ [][NextPair]_vars

-----------------------------------------------------------------------------
(* The dictionaries run() hands back and the list objects behind them *)

\* the conversation_history of a dictionary run() returned is the list
\* self.conversation_history, not a copy: an entry of `results` holds the
\* list as it is now and tells whether self.conversation_history of the
\* agent still refers to it; `item` is the item of the plan the run was for,
\* or the number of the run when no driving loop logs the runs
Result(name, item, signal, history) ==
    [agent |-> name, item |-> item, terminal |-> signal,
     conversation_history |-> history, aliased |-> TRUE]

\* list.append and every other change of the list in place: the
\* dictionaries that refer to the list of agent `name` see it
InPlace(rs, name, history) ==
    [i \in 1..Len(rs) |->
        IF rs[i].agent = name /\ rs[i].aliased
        THEN [rs[i] EXCEPT !.conversation_history = history]
        ELSE rs[i]]

\* the transcript is emptied in place: list.clear() for the assignment
MutAssign(rs, name, history) == InPlace(rs, name, history)

\* lines 232-234 and src/main.py line 166: self.conversation_history is
\* assigned a new list; the list it referred to is left as it was
Assign(rs, name, history) ==
    [i \in 1..Len(rs) |->
        IF rs[i].agent = name THEN [rs[i] EXCEPT !.aliased = FALSE] ELSE rs[i]]

\* lines 236-239: run() has assigned a new list and appended to it
Started == results' = InPlace(Assign(results, agent, <<>>), agent, conversation_history')

\* lines 277 and 300: a message is appended to the transcript
Appended == results' = InPlace(results, agent, conversation_history')

\* lines 264-269, 311-316 and 323-329: run() returns a dictionary that
\* holds self.conversation_history
Returned ==
    results' = Append(InPlace(results, agent, conversation_history'),
                      Result(agent,
                             IF run_log = <<>> THEN Len(results)
                             ELSE run_log[Len(run_log)].item,
                             terminal', ret'.conversation_history))

\* src/main.py line 166: executor.conversation_history = []
Reset == results' = Assign(results, agent, <<>>)

-----------------------------------------------------------------------------
(* One agent run again and again, the results of its runs kept *)

\* what a step of the agent leaves alone
result_vars == <<agent, main_pc, plan_storage, run_log, session_log, schemas,
                 agentic_loop, latex_resume>>

\* an agent with the cap MaxCap that has not been run
InitResults ==
    /\ Init
    /\ max_iterations = MaxCap

\* the caller runs the agent again, after it has emptied the transcript as
\* src/main.py line 166 does or without that, and keeps the dictionaries
\* the runs hand back
NextResults ==
    \/ \E task \in Tasks :
          /\ Len(results) < MaxRuns
          /\ Run(task)
          /\ Started
          /\ UNCHANGED result_vars
    \/ MaxIterations /\ Returned /\ UNCHANGED result_vars
    \/ \E fault \in Faults :
          TransportFault(fault) /\ Returned /\ UNCHANGED result_vars
    \/ \E response \in LogResponses(iteration_count + 1) :
          /\ Respond(response)
          /\ IF pc' = "done" THEN Returned ELSE Appended
          /\ UNCHANGED result_vars
    \/ DispatchTool /\ Appended /\ UNCHANGED result_vars
    \/ ResetHistory /\ Reset /\ UNCHANGED result_vars

SpecResults == InitResults /\ [][NextResults]_vars

-----------------------------------------------------------------------------
(* The driving loop of src/main.py with the results of its runs kept *)

\* the responses of the model behind the planner and behind the executor:
\* a text answer, no answer, or one tool call; a model that has given an
\* empty answer goes on giving empty answers and its calls do not fail
DrainResponses(turn, budget) ==
    IF Degenerate(conversation_history)
    THEN {[content |-> PyNone, tool_calls |-> PyNone]}
    ELSE {[content |-> c, tool_calls |-> PyNone] :
            c \in {PyNone,
                   PyStr(IF agent = "planner" THEN TaskComplete
                         ELSE TaskCompleteUnderscore)}}
         \cup {[content |-> PyNone,
                tool_calls |-> ToolCallList(turn, <<req>>)] :
                 req \in IF budget = 0 THEN {}
                         ELSE IF agent = "planner"
                         THEN {[name |-> AddActionItem, arguments |-> PayloadItem1]}
                         ELSE {[name |-> ReportWeakness, arguments |-> PayloadInformation]}}

\* what a step of a run leaves alone
drain_vars == <<agent, main_pc, run_log, session_log, schemas, agentic_loop,
                latex_resume>>

\* src/main.py lines 147-168: executor.run has returned; the cursor moves on
\* and executor.conversation_history is assigned a new list
ExecutorReset ==
    /\ main_pc = "executor"
    /\ ResetHistory
    /\ plan_storage' =
          [plan_storage EXCEPT !.current_index = Advance(plan_storage.current_index)]
    /\ main_pc' = "drain"
    /\ Reset
    /\ UNCHANGED <<agent, run_log, session_log, schemas, agentic_loop, latex_resume>>

NextDrain ==
    \/ PlannerRun
    \/ Running /\ MaxIterations /\ Returned /\ UNCHANGED <<drain_vars, plan_storage>>
    \/ \E fault \in Faults :
          /\ Running
          /\ ~Degenerate(conversation_history)
          /\ TransportFault(fault)
          /\ Returned
          /\ UNCHANGED <<drain_vars, plan_storage>>
    \/ \E response \in DrainResponses(iteration_count + 1,
                                      MaxToolCalls - tool_calls_requested) :
          /\ Running
          /\ Respond(response)
          /\ IF pc' = "done" THEN Returned ELSE Appended
          /\ UNCHANGED <<drain_vars, plan_storage>>
    \/ Running /\ DispatchTool /\ ToolEffects /\ Appended /\ UNCHANGED drain_vars
    \/ PlannerReturn
    \/ ExecutorRun
    \/ ExecutorReset
    \/ DrainEnd

SpecDrain == InitMain /\ [][NextDrain]_vars

-----------------------------------------------------------------------------
(* ResumeBuilder of src/resume_builder.py, whose bound methods are the tools *)
(* of the executor                                                          *)

\* the characters str.strip() removes
Whitespace == {" ", "\t", "\n"}

RECURSIVE LStripSpace(_)
LStripSpace(s) ==
    IF Len(s) > 0 /\ Head(s) \in Whitespace THEN LStripSpace(Tail(s)) ELSE s

RECURSIVE RStripSpace(_)
RStripSpace(s) ==
    IF Len(s) > 0 /\ s[Len(s)] \in Whitespace
    THEN RStripSpace(SubSeq(s, 1, Len(s) - 1))
    ELSE s

\* s.strip()
Strip(s) == RStripSpace(LStripSpace(s))

RECURSIVE Split(_, _)
\* s.split(sep)
Split(s, sep) ==
    IF Contains(s, sep)
    THEN LET i == CHOOSE k \in 0..(Len(s) - Len(sep)) :
                     /\ SubSeq(s, k + 1, k + Len(sep)) = sep
                     /\ \A j \in 0..(k - 1) : SubSeq(s, j + 1, j + Len(sep)) # sep
         IN  <<SubSeq(s, 1, i)>> \o Split(SubSeq(s, i + Len(sep) + 1, Len(s)), sep)
    ELSE <<s>>

\* the characters [a-zA-Z]
Letters ==
    {UpperCase[i] : i \in 1..Len(UpperCase)} \cup {LowerCase[i] : i \in 1..Len(LowerCase)}

\* lines 339-362, _has_latex: a backslash followed by a letter, by a
\* bracket or by one of % & #, or a dollar sign
HasLatex(text) ==
    \E i \in 1..Len(text) :
        \/ text[i] = "$"
        \/ /\ text[i] = "\\"
           /\ i < Len(text)
           /\ text[i + 1] \in Letters \cup {"(", ")", "[", "]", "%", "&", "#"}

\* lines 323-337, _validate_string_param: None, or the error message
ValidateStringParam(value, param_name) ==
    IF value.t # "str"
    THEN PyStr(<<"T", "y", "p", "e", " ", "e", "r", "r", "o", "r", ":", " ", "'">> \o param_name \o <<"'", " ", "m", "u", "s", "t", " ", "b", "e", " ", "a", " ", "s", "t", "r", "i", "n", "g", ",", " ", "g", "o", "t", " ">>
               \o TypeName(value))
    ELSE IF HasLatex(value.s)
    THEN PyStr(<<"E", "r", "r", "o", "r", ":", " ", "L", "a", "T", "e", "X", " ", "s", "y", "n", "t", "a", "x", " ", "d", "e", "t", "e", "c", "t", "e", "d", " ", "i", "n", " ", "'">> \o param_name
               \o <<"'", ".", " ", "P", "l", "a", "i", "n", " ", "t", "e", "x", "t", " ", "o", "n", "l", "y", ".">>)
    ELSE PyNone

\* the loop `for param_name, param_value in params.items()` of add_contact,
\* add_skills and add_work_experience: the first error, or None
ValidateParams(arguments, names) ==
    LET errors == {i \in 1..Len(names) :
                      ValidateStringParam(Arg(arguments, names[i]), names[i]) # PyNone}
    IN  IF errors = {} THEN PyNone
        ELSE LET first == CHOOSE i \in errors : \A j \in errors : i <= j
             IN  ValidateStringParam(Arg(arguments, names[first]), names[first])

\* lines 25-36: a new ResumeBuilder; skills is the OrderedDict as the
\* sequence of its <<section, skills>> items
NewResume ==
    [name |-> PyNone, address |-> PyNone, phone_number |-> PyNone,
     email |-> PyNone, contacts |-> <<>>, summary |-> PyNone, skills |-> <<>>,
     work_experiences |-> <<>>, section_order |-> <<>>]

\* lines 254-256, _ensure_section_order
EnsureSectionOrder(self, section_name) ==
    IF \E i \in 1..Len(self.section_order) : self.section_order[i] = section_name
    THEN self
    ELSE [self EXCEPT !.section_order = Append(@, section_name)]

\* what a method does: the builder after the call and the value returned
Done(self, result) == [self |-> self, result |-> result]

\* lines 41-76, set_name, set_address, set_phone_number and set_email: the
\* field named `attribute` is set from the parameter named `param_name`
SetField(self, attribute, param_name, arguments) ==
    LET value == Arg(arguments, param_name)
        error == ValidateStringParam(value, param_name)
    IN  IF Truthy(error) THEN Done(self, error)
        ELSE Done([self EXCEPT ![attribute] = PyStr(Strip(value.s))], PyNone)

\* lines 78-98, add_contact
AddContact(self, arguments) ==
    LET error == ValidateParams(arguments, <<<<"c", "o", "n", "t", "a", "c", "t", "_", "t", "y", "p", "e">>, <<"d", "i", "s", "p", "l", "a", "y", "_", "n", "a", "m", "e">>, <<"l", "i", "n", "k">>>>)
    IN  IF Truthy(error) THEN Done(self, error)
        ELSE Done([self EXCEPT !.contacts =
                      Append(@, <<Strip(Arg(arguments, <<"c", "o", "n", "t", "a", "c", "t", "_", "t", "y", "p", "e">>).s),
                                  Strip(Arg(arguments, <<"d", "i", "s", "p", "l", "a", "y", "_", "n", "a", "m", "e">>).s),
                                  Strip(Arg(arguments, <<"l", "i", "n", "k">>).s)>>)],
                  PyNone)

\* lines 103-115, set_summary
SetSummary(self, arguments) ==
    LET value == Arg(arguments, <<"s", "u", "m", "m", "a", "r", "y">>)
        error == ValidateStringParam(value, <<"s", "u", "m", "m", "a", "r", "y">>)
    IN  IF Truthy(error) THEN Done(self, error)
        ELSE Done(EnsureSectionOrder([self EXCEPT !.summary = PyStr(Strip(value.s))],
                                     <<"S", "u", "m", "m", "a", "r", "y">>),
                  PyNone)

\* the index of a section in the skills dictionary, 0 when it is no key
SectionIndex(skills, section) ==
    IF \E i \in 1..Len(skills) : skills[i][1] = section
    THEN CHOOSE i \in 1..Len(skills) : skills[i][1] = section
    ELSE 0

\* lines 117-143, add_skills: the section key is created before the skills
\* are looked at
AddSkills(self, arguments) ==
    LET error == ValidateParams(arguments, <<<<"s", "e", "c", "t", "i", "o", "n">>, <<"s", "k", "i", "l", "l", "s">>>>)
    IN  IF Truthy(error) THEN Done(self, error)
        ELSE
        LET cleaned_section == Strip(Arg(arguments, <<"s", "e", "c", "t", "i", "o", "n">>).s)
            parts == Split(Arg(arguments, <<"s", "k", "i", "l", "l", "s">>).s, <<",">>)
            stripped == [i \in 1..Len(parts) |-> Strip(parts[i])]
            NonEmpty(skill) == Len(skill) > 0
            cleaned_skills == SelectSeq(stripped, NonEmpty)
            created == IF SectionIndex(self.skills, cleaned_section) = 0
                       THEN [self EXCEPT !.skills = Append(@, <<cleaned_section, <<>>>>)]
                       ELSE self
            at == SectionIndex(created.skills, cleaned_section)
        IN  IF Len(cleaned_skills) = 0
            THEN Done(created,
                      PyStr(<<"E", "r", "r", "o", "r", ":", " ", "'", "s", "k", "i", "l", "l", "s", "'", " ", "m", "u", "s", "t", " ", "b", "e", " ", "a", " ", "c", "o", "m", "m", "a", "-", "s", "e", "p", "a", "r", "a", "t", "e", "d", " ", "l", "i", "s", "t", " ", "w", "i", "t", "h", " ", "a", "t", " ", "l", "e", "a", "s", "t", " ", "o", "n", "e", " ", "v", "a", "l", "i", "d", " ", "s", "k", "i", "l", "l">>))
            ELSE Done(EnsureSectionOrder(
                        [created EXCEPT !.skills[at][2] = @ \o cleaned_skills],
                        <<"S", "k", "i", "l", "l", "s">>),
                      PyNone)

\* the parameters of add_work_experience, in the order of its params dict
WorkExperienceParams ==
    <<<<"j", "o", "b", "_", "t", "i", "t", "l", "e">>, <<"c", "o", "m", "p", "a", "n", "y">>, <<"s", "t", "a", "r", "t", "_", "d", "a", "t", "e">>, <<"e", "n", "d", "_", "d", "a", "t", "e">>, <<"l", "o", "c", "a", "t", "i", "o", "n">>,
      <<"e", "x", "p", "e", "r", "i", "e", "n", "c", "e", "_", "p", "o", "i", "n", "t", "s">>>>

\* lines 190-199: the WorkExperience appended
WorkExperience(arguments, points) ==
    [job_title |-> Strip(Arg(arguments, <<"j", "o", "b", "_", "t", "i", "t", "l", "e">>).s),
     company |-> Strip(Arg(arguments, <<"c", "o", "m", "p", "a", "n", "y">>).s),
     start_date |-> Strip(Arg(arguments, <<"s", "t", "a", "r", "t", "_", "d", "a", "t", "e">>).s),
     end_date |-> Strip(Arg(arguments, <<"e", "n", "d", "_", "d", "a", "t", "e">>).s),
     location |-> Strip(Arg(arguments, <<"l", "o", "c", "a", "t", "i", "o", "n">>).s),
     experience_points |-> points]

\* lines 145-199, add_work_experience
AddWorkExperience(self, arguments) ==
    LET error == ValidateParams(arguments, WorkExperienceParams)
    IN  IF Truthy(error) THEN Done(self, error)
        ELSE
        LET parts == Split(Arg(arguments, <<"e", "x", "p", "e", "r", "i", "e", "n", "c", "e", "_", "p", "o", "i", "n", "t", "s">>).s, <<"<", "<">>)
            points == [i \in 1..Len(parts) |-> Strip(parts[i])]
        IN  IF Len(points) = 1 /\ points[1] = <<>>
            THEN Done(self, PyStr(<<"E", "r", "r", "o", "r", ":", " ", "'", "e", "x", "p", "e", "r", "i", "e", "n", "c", "e", "_", "p", "o", "i", "n", "t", "s", "'", " ", "f", "i", "e", "l", "d", " ", "w", "a", "s", " ", "l", "e", "f", "t", " ", "e", "m", "p", "t", "y", ".">>))
            ELSE IF Len(points) > 3
            THEN Done(self, PyStr(<<"E", "r", "r", "o", "r", ":", " ", "'", "e", "x", "p", "e", "r", "i", "e", "n", "c", "e", "_", "p", "o", "i", "n", "t", "s", "'", " ", "f", "i", "e", "l", "d", " ", "c", "o", "n", "t", "a", "i", "n", "s", " ", "m", "o", "r", "e", " ", "t", "h", "a", "n", " ", "3", " ", "s", "e", "n", "t", "e", "n", "c", "e", "s", " ", "s", "e", "p", "e", "r", "a", "t", "e", "d", " ", "b", "y", " ", "t", "h", "e", " ", "s", "y", "m", "b", "o", "l", " ", "'", "<", "<", "'">>))
            ELSE Done(EnsureSectionOrder(
                        [self EXCEPT !.work_experiences =
                            Append(@, WorkExperience(arguments, points))],
                        <<"W", "o", "r", "k", " ", "E", "x", "p", "e", "r", "i", "e", "n", "c", "e">>),
                      PyNone)

\* the bound method executor_tools[tool_name] called with **arguments that
\* match its parameters
ResumeMethod(self, tool_name, arguments) ==
    CASE tool_name = <<"s", "e", "t", "_", "n", "a", "m", "e">> -> SetField(self, "name", <<"n", "a", "m", "e">>, arguments)
      [] tool_name = <<"s", "e", "t", "_", "a", "d", "d", "r", "e", "s", "s">> -> SetField(self, "address", <<"a", "d", "d", "r", "e", "s", "s">>, arguments)
      [] tool_name = <<"s", "e", "t", "_", "p", "h", "o", "n", "e", "_", "n", "u", "m", "b", "e", "r">> -> SetField(self, "phone_number", <<"n", "u", "m", "b", "e", "r">>, arguments)
      [] tool_name = <<"s", "e", "t", "_", "e", "m", "a", "i", "l">> -> SetField(self, "email", <<"e", "m", "a", "i", "l">>, arguments)
      [] tool_name = <<"a", "d", "d", "_", "c", "o", "n", "t", "a", "c", "t">> -> AddContact(self, arguments)
      [] tool_name = <<"s", "e", "t", "_", "s", "u", "m", "m", "a", "r", "y">> -> SetSummary(self, arguments)
      [] tool_name = <<"a", "d", "d", "_", "s", "k", "i", "l", "l", "s">> -> AddSkills(self, arguments)
      [] tool_name = <<"a", "d", "d", "_", "w", "o", "r", "k", "_", "e", "x", "p", "e", "r", "i", "e", "n", "c", "e">> -> AddWorkExperience(self, arguments)

-----------------------------------------------------------------------------
(* The executor calling the tools of the ResumeBuilder *)

\* a requested call: the tool and the arguments json.loads gave
Call(tool_name, items) == [tool_name |-> tool_name, arguments |-> PyDict(items)]

\* the arguments of an add_work_experience call with this start date and
\* these experience points
WorkArguments(start_date, experience_points) ==
    << <<<<"j", "o", "b", "_", "t", "i", "t", "l", "e">>, PyStr(<<"A", "n", "a", "l", "y", "s", "t">>)>>,
       <<<<"c", "o", "m", "p", "a", "n", "y">>, PyStr(<<"D", "a", "t", "a", "C", "o", "r", "p">>)>>,
       <<<<"s", "t", "a", "r", "t", "_", "d", "a", "t", "e">>, start_date>>,
       <<<<"e", "n", "d", "_", "d", "a", "t", "e">>, PyStr(<<"J", "u", "l", " ", "'", "2", "2">>)>>,
       <<<<"l", "o", "c", "a", "t", "i", "o", "n">>, PyStr(<<" ", "B", "o", "s", "t", "o", "n", " ">>)>>,
       <<<<"e", "x", "p", "e", "r", "i", "e", "n", "c", "e", "_", "p", "o", "i", "n", "t", "s">>, experience_points>> >>

\* the calls the model behind the executor makes: well-formed ones, values
\* that are no strings, LaTeX in a value, a skills list without a skill,
\* no, one, three and four experience points, and a missing argument
ResumeCalls ==
    {Call(<<"s", "e", "t", "_", "n", "a", "m", "e">>, << <<<<"n", "a", "m", "e">>, PyStr(<<" ", "A", "n", "n", " ">>)>> >>),
     Call(<<"s", "e", "t", "_", "n", "a", "m", "e">>, << <<<<"n", "a", "m", "e">>, PyInt(7)>> >>),
     Call(<<"s", "e", "t", "_", "n", "a", "m", "e">>, << <<<<"n", "a", "m", "e">>, PyStr(<<"\\", "t", "e", "x", "t", "b", "f", "{", "A", "}">>)>> >>),
     Call(<<"s", "e", "t", "_", "n", "a", "m", "e">>, <<>>),
     Call(<<"s", "e", "t", "_", "a", "d", "d", "r", "e", "s", "s">>, << <<<<"a", "d", "d", "r", "e", "s", "s">>, PyStr(<<"C", "h", "i", "c", "o", ",", " ", "C", "A">>)>> >>),
     Call(<<"s", "e", "t", "_", "a", "d", "d", "r", "e", "s", "s">>, << <<<<"a", "d", "d", "r", "e", "s", "s">>, PyNone>> >>),
     Call(<<"s", "e", "t", "_", "p", "h", "o", "n", "e", "_", "n", "u", "m", "b", "e", "r">>, << <<<<"n", "u", "m", "b", "e", "r">>, PyStr(<<"(", "5", "3", "0", ")", " ", "5", "5", "5">>)>> >>),
     Call(<<"s", "e", "t", "_", "p", "h", "o", "n", "e", "_", "n", "u", "m", "b", "e", "r">>, << <<<<"n", "u", "m", "b", "e", "r">>, PyStr(<<"$", "5">>)>> >>),
     Call(<<"s", "e", "t", "_", "e", "m", "a", "i", "l">>, << <<<<"e", "m", "a", "i", "l">>, PyStr(<<"a", "@", "b", ".", "c">>)>> >>),
     Call(<<"s", "e", "t", "_", "e", "m", "a", "i", "l">>, << <<<<"e", "m", "a", "i", "l">>, PyList(<<>>)>> >>),
     Call(<<"a", "d", "d", "_", "c", "o", "n", "t", "a", "c", "t">>, << <<<<"c", "o", "n", "t", "a", "c", "t", "_", "t", "y", "p", "e">>, PyStr(<<"G", "i", "t", "h", "u", "b">>)>>,
                              <<<<"d", "i", "s", "p", "l", "a", "y", "_", "n", "a", "m", "e">>, PyStr(<<"r", "-", "b", "u", "t", "l">>)>>,
                              <<<<"l", "i", "n", "k">>, PyStr(<<"g", "i", "t", "h", "u", "b", ".", "c", "o", "m", "/", "r", "-", "b", "u", "t", "l">>)>> >>),
     Call(<<"a", "d", "d", "_", "c", "o", "n", "t", "a", "c", "t">>, << <<<<"c", "o", "n", "t", "a", "c", "t", "_", "t", "y", "p", "e">>, PyStr(<<"G", "i", "t", "h", "u", "b">>)>>,
                              <<<<"d", "i", "s", "p", "l", "a", "y", "_", "n", "a", "m", "e">>, PyStr(<<"r", "-", "b", "u", "t", "l">>)>>,
                              <<<<"l", "i", "n", "k">>, PyInt(7)>> >>),
     Call(<<"s", "e", "t", "_", "s", "u", "m", "m", "a", "r", "y">>, << <<<<"s", "u", "m", "m", "a", "r", "y">>, PyStr(<<"E", "n", "g", "i", "n", "e", "e", "r">>)>> >>),
     Call(<<"s", "e", "t", "_", "s", "u", "m", "m", "a", "r", "y">>, << <<<<"s", "u", "m", "m", "a", "r", "y">>, PyStr(<<"5", "0", "\\", "%", " ", "f", "a", "s", "t", "e", "r">>)>> >>),
     Call(<<"a", "d", "d", "_", "s", "k", "i", "l", "l", "s">>, << <<<<"s", "e", "c", "t", "i", "o", "n">>, PyStr(<<"L", "A", "N", "G">>)>>,
                             <<<<"s", "k", "i", "l", "l", "s">>, PyStr(<<"P", "y", "t", "h", "o", "n", ",", " ", "C">>)>> >>),
     Call(<<"a", "d", "d", "_", "s", "k", "i", "l", "l", "s">>, << <<<<"s", "e", "c", "t", "i", "o", "n">>, PyStr(<<"L", "A", "N", "G">>)>>,
                             <<<<"s", "k", "i", "l", "l", "s">>, PyStr(<<" ", ",", " ">>)>> >>),
     Call(<<"a", "d", "d", "_", "s", "k", "i", "l", "l", "s">>, << <<<<"s", "e", "c", "t", "i", "o", "n">>, PyStr(<<"T", "O", "O", "L", "S">>)>>,
                             <<<<"s", "k", "i", "l", "l", "s">>, PyStr(<<"g", "i", "t">>)>> >>),
     Call(<<"a", "d", "d", "_", "s", "k", "i", "l", "l", "s">>, << <<<<"s", "e", "c", "t", "i", "o", "n">>, PyStr(<<"L", "A", "N", "G">>)>>,
                             <<<<"s", "k", "i", "l", "l", "s">>, PyInt(7)>> >>),
     Call(<<"a", "d", "d", "_", "w", "o", "r", "k", "_", "e", "x", "p", "e", "r", "i", "e", "n", "c", "e">>, WorkArguments(PyStr(<<"J", "u", "l", " ", "'", "2", "1">>), PyStr(<<"a">>))),
     Call(<<"a", "d", "d", "_", "w", "o", "r", "k", "_", "e", "x", "p", "e", "r", "i", "e", "n", "c", "e">>, WorkArguments(PyStr(<<"J", "u", "l", " ", "'", "2", "1">>), PyStr(<<"a", "<", "<", " ", "b", " ", "<", "<", "c">>))),
     Call(<<"a", "d", "d", "_", "w", "o", "r", "k", "_", "e", "x", "p", "e", "r", "i", "e", "n", "c", "e">>, WorkArguments(PyStr(<<"J", "u", "l", " ", "'", "2", "1">>), PyStr(<<"a", "<", "<", "b", "<", "<", "c", "<", "<", "d">>))),
     Call(<<"a", "d", "d", "_", "w", "o", "r", "k", "_", "e", "x", "p", "e", "r", "i", "e", "n", "c", "e">>, WorkArguments(PyStr(<<"J", "u", "l", " ", "'", "2", "1">>), PyStr(<<>>))),
     Call(<<"a", "d", "d", "_", "w", "o", "r", "k", "_", "e", "x", "p", "e", "r", "i", "e", "n", "c", "e">>, WorkArguments(PyInt(2024), PyStr(<<"a">>))),
     Call(<<"a", "d", "d", "_", "w", "o", "r", "k", "_", "e", "x", "p", "e", "r", "i", "e", "n", "c", "e">>, WorkArguments(PyStr(<<"J", "u", "l", " ", "'", "2", "1">>), PyStr(<<"g", "o", "t", " ", "$", "9", "9">>)))}

\* src/main.py lines 104-124: the ResumeBuilder and the executor have been
\* constructed
InitResume ==
    /\ agent = "executor"
    /\ main_pc = "none"
    /\ plan_storage = [action_items |-> <<>>, current_index |-> 0]
    /\ run_log = <<>>
    /\ session_log = NoFile
    /\ schemas = <<>>
    /\ agentic_loop = NoLoop
    /\ latex_resume = NewResume
    /\ results = <<>>
    /\ pc = "invoke"
    /\ invoke = NoInvoke
    /\ max_iterations = ExecutorMaxIterations
    /\ conversation_history = <<>>
    /\ iteration_count = 0
    /\ message = NoMessage
    /\ call_index = 0
    /\ ret = NoReturn
    /\ terminal = "none"
    /\ model_calls = 0
    /\ tool_calls_requested = 0

\* lines 290-291 of src/agent.py for a tool of the ResumeBuilder: the bound
\* method runs on latex_resume, _call_tool classifies what it returned
ResumeInvoke(call) ==
    /\ pc = "invoke"
    /\ tool_calls_requested < MaxToolCalls
    /\ LET tool_name == call.tool_name
           arguments == call.arguments
           ran == BodyRuns(tool_name, arguments)
           done == IF ran THEN ResumeMethod(latex_resume, tool_name, arguments)
                   ELSE Done(latex_resume, PyNone)
           tool_result == CallTool(tool_name, arguments, Return(done.result))
           formatted_result == FormatToolResult(tool_name, tool_result)
       IN  /\ invoke' = [tool_name |-> tool_name,
                         arguments |-> arguments,
                         ran |-> ran,
                         outcome |-> IF ran THEN Return(done.result)
                                     ELSE [kind |-> "none"],
                         tool_result |-> tool_result,
                         formatted_result |-> formatted_result]
           /\ latex_resume' = done.self
    /\ tool_calls_requested' = tool_calls_requested + 1
    /\ UNCHANGED <<pc, max_iterations, conversation_history, iteration_count,
                   message, call_index, ret, terminal, model_calls, agent,
                   main_pc, plan_storage, run_log, session_log, schemas,
                   agentic_loop, results>>

NextResume == \E call \in ResumeCalls : ResumeInvoke(call)

SpecResume == InitResume /\ [][NextResume]_vars

-----------------------------------------------------------------------------
(* Properties *)

\* a run is in progress or has returned and the transcript is still its own
InRun == pc \in {"loop", "dispatch", "done"}

Terminals == {"COMPLETED", "MAX_ITERATIONS", "TRANSPORT_ERROR"}

LastMessage(h) == h[Len(h)]

AssistantTurns(h) == {i \in 1..Len(h) : h[i].role = "assistant"}

HasPhrase(content) ==
    /\ content.t = "str"
    /\ Contains(Lower(content.s), TaskComplete)

\* an assistant message with text and without tool calls
PlainTurn(m) ==
    /\ m.role = "assistant"
    /\ m.content.t = "str"
    /\ Len(m.content.s) > 0
    /\ ~Truthy(m.tool_calls)

\* C1: when the answer of turn 1 is plain text without the phrase "task
\* complete" and without tool calls, the run is not completed after turn 1 and
\* goes on to a second round-trip when the cap allows; when the answer of turn
\* 2 is again plain text without tool calls, the run ends COMPLETED on turn 2
\* with result equal to that text and iterations equal to 2.
C1_CompletionDetection ==
    LET h == conversation_history IN
    (InRun /\ Len(h) >= 3 /\ PlainTurn(h[3]) /\ ~HasPhrase(h[3].content)) =>
        /\ (Len(h) = 3 =>
               /\ terminal # "COMPLETED"
               /\ (max_iterations >= 2 /\ iteration_count = 1 => pc = "loop"))
        /\ (Len(h) >= 4 /\ PlainTurn(h[4]) =>
               /\ Len(h) = 4
               /\ pc = "done"
               /\ terminal = "COMPLETED"
               /\ ret.result = h[4].content
               /\ ret.final_message = h[4].content
               /\ ret.iterations = 2)

C1_Witness ==
    LET h == conversation_history IN
    /\ pc = "done"
    /\ terminal = "COMPLETED"
    /\ Len(h) = 4
    /\ PlainTurn(h[3]) /\ ~HasPhrase(h[3].content)
    /\ PlainTurn(h[4]) /\ ~HasPhrase(h[4].content)
    /\ ret.iterations = 2

EveryTurnCallsTools(h) == \A i \in AssistantTurns(h) : Truthy(h[i].tool_calls)

\* C2: with a cap N >= 1 and a decision model that requests a tool call on
\* every turn (and no transport fault), the run is never COMPLETED; it ends in
\* MAX_ITERATIONS after exactly N model round-trips and the result carries
\* the warning.
C2_AlwaysToolCalls ==
    LET h == conversation_history IN
    (/\ InRun
     /\ max_iterations >= 1
     /\ terminal # "TRANSPORT_ERROR"
     /\ EveryTurnCallsTools(h)) =>
        /\ terminal # "COMPLETED"
        /\ model_calls <= max_iterations
        /\ (pc = "done" =>
               /\ terminal = "MAX_ITERATIONS"
               /\ model_calls = max_iterations
               /\ Cardinality(AssistantTurns(h)) = max_iterations
               /\ ret.iterations = max_iterations
               /\ "warning" \in DOMAIN ret)

C2_Witness ==
    /\ pc = "done"
    /\ terminal = "MAX_ITERATIONS"
    /\ max_iterations = 2
    /\ model_calls = 2
    /\ EveryTurnCallsTools(conversation_history)
    /\ "warning" \in DOMAIN ret

\* C3: when every model round-trip and every tool invocation returns, every
\* run that was started reaches one of COMPLETED, MAX_ITERATIONS and
\* TRANSPORT_ERROR, and it makes at most max_iterations model round-trips,
\* whatever the model answers.
C3_Termination ==
    /\ [](model_calls <= max_iterations)
    /\ [](pc = "done" => terminal \in Terminals)
    /\ [](pc \in {"loop", "dispatch"} => terminal = "none")
    /\ [](pc \in {"idle", "loop", "dispatch", "done"})
    /\ ((pc \in {"loop", "dispatch"}) ~> (pc = "done"))

C3_Witness ==
    /\ pc = "done"
    /\ terminal = "COMPLETED"
    /\ model_calls = max_iterations
    /\ \E i \in AssistantTurns(conversation_history) :
          Truthy(conversation_history[i].tool_calls)

\* C4: a transport fault of the model call ends the run at once in
\* TRANSPORT_ERROR: the transcript is left as it was before the failed call
\* (no assistant message for it), no tool is invoked, the result holds result
\* None, the fault's message as error, the counter of the failed turn as
\* iterations and that transcript; no model call follows in this run.
C4_TransportFault ==
    /\ [][(terminal # "TRANSPORT_ERROR" /\ terminal' = "TRANSPORT_ERROR") =>
            /\ pc' = "done"
            /\ conversation_history' = conversation_history
            /\ invoke' = invoke
            /\ iteration_count' = iteration_count + 1
            /\ model_calls' = model_calls + 1
            /\ DOMAIN ret' = {"result", "error", "iterations", "conversation_history"}
            /\ ret'.result = PyNone
            /\ ret'.error.t = "str" /\ ret'.error.s \in Faults
            /\ ret'.iterations = iteration_count + 1
            /\ ret'.conversation_history = conversation_history]_vars
    /\ [][(terminal = "TRANSPORT_ERROR" /\ terminal' = "TRANSPORT_ERROR") =>
            /\ model_calls' = model_calls
            /\ invoke' = invoke
            /\ ret' = ret]_vars
    /\ [](terminal = "TRANSPORT_ERROR" =>
            /\ pc \in {"done", "idle"}
            /\ Cardinality(AssistantTurns(ret.conversation_history)) = model_calls - 1)

C4_Witness ==
    /\ pc = "done"
    /\ terminal = "TRANSPORT_ERROR"
    /\ ret.iterations = 2
    /\ Len(ret.conversation_history) > 3
    /\ LastMessage(ret.conversation_history).role = "tool"

\* the transcript begins with one system message and one user message; what
\* follows are assistant and tool messages, each run of tool messages after
\* an assistant message that requested tool calls
TranscriptShape(h) ==
    /\ Len(h) >= 2
    /\ h[1].role = "system"
    /\ h[2].role = "user"
    /\ \A i \in 3..Len(h) : h[i].role \in {"assistant", "tool"}
    /\ \A i \in 3..Len(h) :
          h[i].role = "tool" =>
             /\ i > 3
             /\ \/ h[i - 1].role = "tool"
                \/ h[i - 1].role = "assistant" /\ Truthy(h[i - 1].tool_calls)

\* C5 as stated: in every state the transcript begins with exactly one system
\* message followed by one user message, and every later message is an
\* assistant or a tool message in alternating assistant/tool segments.
C5_TranscriptShapeAlways == TranscriptShape(conversation_history)

\* C5 amended: from the start of a run until the caller empties the
\* transcript, the transcript begins with exactly one system message (the role
\* prompt) followed by one user message, and every later message is an
\* assistant or a tool message in alternating assistant/tool segments; before
\* the first run and after the caller's reset the transcript is empty.
C5_TranscriptShapeInRun ==
    /\ InRun =>
          /\ TranscriptShape(conversation_history)
          /\ conversation_history[1].content = PyStr(system_prompt)
          /\ conversation_history[2].content.t = "str"
          /\ conversation_history[2].content.s \in Tasks
    /\ ~InRun => conversation_history = <<>>

C5_Witness ==
    LET h == conversation_history IN
    /\ pc = "done"
    /\ Len(h) >= 6
    /\ \E i \in 3..Len(h) : h[i].role = "tool"
    /\ \E i \in 3..(Len(h) - 1) : h[i].role = "assistant" /\ h[i + 1].role = "assistant"

\* the assistant message nearest before position m
NearestAssistant(h, m) ==
    CHOOSE i \in 1..(m - 1) :
        /\ h[i].role = "assistant"
        /\ \A j \in (i + 1)..(m - 1) : h[j].role # "assistant"

\* the number of calls of the assistant message at a that have been answered
Answered(h, a) ==
    IF pc = "dispatch" /\ \A i \in AssistantTurns(h) : i <= a
    THEN call_index - 1
    ELSE Len(h[a].tool_calls.l)

\* C6: an assistant message that requests k >= 1 tool calls is followed
\* directly by exactly k tool messages once its calls are dispatched, the j-th
\* with the call-id and the tool name of the j-th call; tool messages occur
\* nowhere else, so each one answers a call of the nearest assistant message
\* before it.
C6_CallIdPairing ==
    LET h == conversation_history IN
    /\ \A m \in 1..Len(h) :
          h[m].role = "tool" =>
             /\ \E i \in 1..(m - 1) : h[i].role = "assistant"
             /\ LET a == NearestAssistant(h, m)
                    j == m - a
                IN  /\ Truthy(h[a].tool_calls)
                    /\ j <= Len(h[a].tool_calls.l)
                    /\ h[m].tool_call_id = h[a].tool_calls.l[j].id
                    /\ h[m].name = h[a].tool_calls.l[j].name
    /\ \A a \in AssistantTurns(h) :
          Truthy(h[a].tool_calls) =>
             /\ Len(h) >= a + Answered(h, a)
             /\ \A j \in 1..Answered(h, a) : h[a + j].role = "tool"
             /\ Len(h) > a + Answered(h, a) => h[a + Answered(h, a) + 1].role # "tool"

C6_Witness ==
    LET h == conversation_history IN
    /\ pc = "loop"
    /\ Len(h) = 5
    /\ h[3].role = "assistant"
    /\ Len(h[3].tool_calls.l) = 2
    /\ h[4].role = "tool" /\ h[4].tool_call_id = h[3].tool_calls.l[1].id
    /\ h[5].role = "tool" /\ h[5].tool_call_id = h[3].tool_calls.l[2].id
    /\ h[4].tool_call_id # h[5].tool_call_id

\* C7: a response that requests tool calls never ends the run on its turn,
\* also when its text holds "task complete" and the counter is 2 or more: the
\* loop dispatches the calls and goes back to the top of the loop.
C7_ToolCallsNeverTerminate ==
    /\ [][(/\ pc = "loop"
           /\ Len(conversation_history') = Len(conversation_history) + 1
           /\ LastMessage(conversation_history').role = "assistant"
           /\ Truthy(LastMessage(conversation_history').tool_calls)) =>
            /\ pc' = "dispatch"
            /\ terminal' = "none"
            /\ ret' = NoReturn]_vars
    /\ [][pc = "dispatch" =>
            /\ pc' \in {"dispatch", "loop"}
            /\ pc' = "loop" <=> call_index = Len(message.tool_calls.l)
            /\ terminal' = "none"
            /\ ret' = NoReturn]_vars

C7_Witness ==
    /\ pc = "dispatch"
    /\ iteration_count >= 2
    /\ HasPhrase(message.content)

\* the last message is the answer of the current turn: a content that is not
\* None, without tool calls, on turn 2 or later
TextOnLaterTurn(h) ==
    /\ InRun
    /\ Len(h) >= 3
    /\ Cardinality(AssistantTurns(h)) = iteration_count
    /\ LastMessage(h).role = "assistant"
    /\ LastMessage(h).content # PyNone
    /\ ~Truthy(LastMessage(h).tool_calls)
    /\ iteration_count >= 2

CompletedWith(content) ==
    /\ pc = "done"
    /\ terminal = "COMPLETED"
    /\ ret.result = content
    /\ ret.final_message = content
    /\ ret.iterations = iteration_count
    /\ ret.conversation_history = conversation_history

\* C8 as stated: a response without tool calls whose content is not None (the
\* empty string included), on a turn with counter >= 2, ends the run COMPLETED
\* on that turn with result and final_message equal to the content and
\* iterations equal to the counter.
C8_NonNullCompletes ==
    TextOnLaterTurn(conversation_history) =>
        CompletedWith(LastMessage(conversation_history).content)

\* C8 amended: a response without tool calls whose content is a non-empty
\* string, on a turn with counter >= 2, ends the run COMPLETED on that turn
\* with result and final_message equal to the content and iterations equal to
\* the counter; an empty string is treated like None (a degenerate turn).
C8_NonEmptyCompletes ==
    TextOnLaterTurn(conversation_history) =>
        IF Truthy(LastMessage(conversation_history).content)
        THEN CompletedWith(LastMessage(conversation_history).content)
        ELSE terminal # "COMPLETED"

C8_Witness ==
    /\ TextOnLaterTurn(conversation_history)
    /\ Truthy(LastMessage(conversation_history).content)
    /\ ~HasPhrase(LastMessage(conversation_history).content)
    /\ CompletedWith(LastMessage(conversation_history).content)

\* C9: when the run ends by exhausting the cap, result and final_message are
\* the content of the last transcript message when that is not None and the
\* placeholder "Max iterations reached" otherwise, never None, and the result
\* carries the warning.
C9_MaxIterationsResult ==
    (pc = "done" /\ terminal = "MAX_ITERATIONS") =>
        LET last == LastMessage(ret.conversation_history) IN
        /\ ret.result = IF last.content # PyNone THEN last.content
                        ELSE PyStr(MaxIterationsText)
        /\ ret.final_message = ret.result
        /\ ret.result # PyNone
        /\ "warning" \in DOMAIN ret

-----------------------------------------------------------------------------
(* The tool invoker: rules 2 and 3, unknown names, faults *)

ErrorPrefix == <<"E", "r", "r", "o", "r", ":">>

\* _call_tool has been applied to a registered tool
Invoked == pc = "invoked" /\ invoke.tool_name \in DOMAIN tools

\* the body of the tool ran and returned
NormalReturn == Invoked /\ invoke.outcome.kind = "return"

\* the return type is written `-> Optional[str]` in the source of the tool:
\* inspect gives the typing object, or the text of the annotation when the
\* module of the tool postpones the evaluation of annotations
DeclaredOptionalStr(ann) ==
    \/ ann = OptionalStr
    \/ ann = AnnText(<<"O", "p", "t", "i", "o", "n", "a", "l", "[", "s", "t", "r", "]">>)

\* C11: for every tool whose declared return type is Optional[str],
\* _call_tool gives Success with data None for a returned None and Failure
\* with the returned string as error, the tool name and the arguments for every
\* returned string, whatever the string holds.
C11_OptionalStrRule ==
    (NormalReturn /\ DeclaredOptionalStr(tools[invoke.tool_name].return_annotation)) =>
        /\ (invoke.outcome.value = PyNone => invoke.tool_result = Success(PyNone))
        /\ (invoke.outcome.value.t = "str" =>
               invoke.tool_result = Failure(invoke.outcome.value.s, invoke.tool_name,
                                            invoke.arguments))

\* C12: for every tool without a return annotation, _call_tool gives Success
\* with data None for a returned None, Failure exactly for a returned string
\* that starts with "Error:", and Success with the value as data for every
\* other string and every other value.
C12_NoAnnotationRule ==
    (NormalReturn /\ tools[invoke.tool_name].return_annotation = AnnEmpty) =>
        LET value == invoke.outcome.value IN
        /\ (value = PyNone => invoke.tool_result = Success(PyNone))
        /\ (~invoke.tool_result.success <=>
               (value.t = "str" /\ StartsWith(value.s, ErrorPrefix)))
        /\ (~invoke.tool_result.success =>
               invoke.tool_result = Failure(value.s, invoke.tool_name, invoke.arguments))
        /\ (invoke.tool_result.success => invoke.tool_result = Success(value))

C12_Witness ==
    /\ pc = "invoked"
    /\ invoke.tool_name = AnyTool
    /\ invoke.outcome = Return(PyStr(ErrorLow))
    /\ invoke.tool_result = Success(PyStr(ErrorLow))

\* a union that holds None and does not hold str
UnionWithNoneWithoutStr(ann) ==
    /\ ann.k = "generic"
    /\ ann.origin = "Union"
    /\ \E i \in 1..Len(ann.args) : ann.args[i] = "NoneType"
    /\ \A i \in 1..Len(ann.args) : ann.args[i] # "str"

\* C13: a tool whose declared return type is a union that holds None and does
\* not hold str is classified by rule 3: a returned string is a Failure only
\* when it starts with "Error:", and every other returned string is Success
\* with that string as data.
C13_OtherUnionRule ==
    (/\ NormalReturn
     /\ UnionWithNoneWithoutStr(tools[invoke.tool_name].return_annotation)
     /\ invoke.outcome.value.t = "str") =>
        invoke.tool_result =
            IF StartsWith(invoke.outcome.value.s, ErrorPrefix)
            THEN Failure(invoke.outcome.value.s, invoke.tool_name, invoke.arguments)
            ELSE Success(invoke.outcome.value)

\* C14: invoking a name that the tool mapping does not hold runs no callable
\* and gives Failure with the requested name as tool_name and the requested
\* arguments as arguments, whatever the arguments are.
C14_UnknownTool ==
    (pc = "invoked" /\ invoke.tool_name \notin DOMAIN tools) =>
        /\ ~invoke.ran
        /\ invoke.outcome.kind = "none"
        /\ ~invoke.tool_result.success
        /\ invoke.tool_result.tool_name = invoke.tool_name
        /\ invoke.tool_result.arguments = invoke.arguments
        /\ invoke.tool_result.error =
              <<"T", "o", "o", "l", " ", "'">> \o invoke.tool_name
              \o <<"'", " ", "n", "o", "t", " ", "f", "o", "u", "n", "d">>

C14_Witness ==
    /\ pc = "invoked"
    /\ invoke.tool_name = NoTool
    /\ invoke.arguments = PyList(<<PyInt(1)>>)
    /\ invoke.tool_result.arguments = PyList(<<PyInt(1)>>)

\* the tool message run() appends for the call `tool_call` after invocation i
ToolMessageOf(tool_call, i) ==
    [role |-> "tool",
     tool_call_id |-> tool_call.id,
     name |-> tool_call.name,
     content |-> PyStr(FormatToolResult(i.tool_name, i.tool_result))]

\* the loop over the calls goes on: to the next call, or back to the top of
\* the while loop after the last call; the run has not returned
LoopGoesOn ==
    /\ pc' = IF call_index < Len(message.tool_calls.l) THEN "dispatch" ELSE "loop"
    /\ terminal' = "none"
    /\ ret' = NoReturn
    /\ iteration_count' = iteration_count

\* C15: a fault raised by a tool (by its body, or by the call binding the
\* arguments) does not leave _call_tool: the result is Failure with the fault's
\* message, the requested name and the arguments of the call; the run is not
\* ended: the tool message of that call is appended and the loop goes on to
\* the next requested call or to the next model round-trip.
C15_ToolFaultContained ==
    [][(/\ pc = "dispatch"
        /\ invoke'.tool_name \in DOMAIN tools
        /\ Apply(invoke'.tool_name, invoke'.arguments, invoke'.outcome).kind = "raise") =>
         /\ invoke'.tool_result =
               Failure(Apply(invoke'.tool_name, invoke'.arguments, invoke'.outcome).msg,
                       message.tool_calls.l[call_index].name,
                       Arguments(message.tool_calls.l[call_index].arguments))
         /\ conversation_history' =
               Append(conversation_history,
                      ToolMessageOf(message.tool_calls.l[call_index], invoke'))
         /\ StartsWith(LastMessage(conversation_history').content.s,
                       <<"E", "r", "r", "o", "r", " ", "c", "a", "l", "l", "i", "n", "g">>)
         /\ LoopGoesOn]_vars

C15_Witness ==
    /\ pc = "dispatch"
    /\ call_index = 2
    /\ invoke # NoInvoke
    /\ invoke.ran
    /\ invoke.outcome = Raise(Boom)
    /\ invoke.tool_result = Failure(Boom, invoke.tool_name, invoke.arguments)

\* C16: a requested call whose payload json.loads rejects is run with the
\* empty argument set {}: the named tool goes through _call_tool with {}, one
\* tool message with the call's id is appended and the loop goes on; a payload
\* that parses to something that is no mapping does not end the run either:
\* the call yields a Failure, its tool message is appended and the loop goes on.
C16_MalformedPayload ==
    /\ [][(pc = "dispatch" /\ ~JsonLoads(message.tool_calls.l[call_index].arguments).ok) =>
            /\ invoke'.arguments = PyDict(<<>>)
            /\ invoke'.tool_name = message.tool_calls.l[call_index].name
            /\ \E outcome \in RunOutcomes(invoke'.tool_name) :
                  invoke'.tool_result = CallTool(invoke'.tool_name, PyDict(<<>>), outcome)
            /\ invoke'.ran = (/\ invoke'.tool_name \in DOMAIN tools
                              /\ Required(tools[invoke'.tool_name]) = {})
            /\ conversation_history' =
                  Append(conversation_history,
                         ToolMessageOf(message.tool_calls.l[call_index], invoke'))
            /\ LoopGoesOn]_vars
    /\ [][(/\ pc = "dispatch"
           /\ JsonLoads(message.tool_calls.l[call_index].arguments).ok
           /\ JsonLoads(message.tool_calls.l[call_index].arguments).value.t # "dict") =>
            /\ ~invoke'.ran
            /\ ~invoke'.tool_result.success
            /\ conversation_history' =
                  Append(conversation_history,
                         ToolMessageOf(message.tool_calls.l[call_index], invoke'))
            /\ LoopGoesOn]_vars

C16_Witness ==
    /\ pc = "loop"
    /\ invoke # NoInvoke
    /\ invoke.arguments = PyDict(<<>>)
    /\ invoke.tool_name = StrTool
    /\ LastMessage(conversation_history).role = "tool"
    /\ LastMessage(conversation_history).name = StrTool
    /\ model_calls < max_iterations

\* every call of the assistant message at position a is answered, in order,
\* by the tool messages that follow it
AllAnswered(h, a) ==
    /\ Len(h) >= a + Len(h[a].tool_calls.l)
    /\ \A j \in 1..Len(h[a].tool_calls.l) :
          /\ h[a + j].role = "tool"
          /\ h[a + j].tool_call_id = h[a].tool_calls.l[j].id

\* C17: the calls of one turn are run one after the other in the order of
\* message.tool_calls, the tool message of a call being appended before the
\* next call starts; a call that yields Failure does not stop the calls after
\* it; no model round-trip is made before every call of the turn has its tool
\* message in the transcript.
C17_SequentialCalls ==
    /\ [][pc = "dispatch" =>
            /\ invoke'.tool_name = message.tool_calls.l[call_index].name
            /\ conversation_history' =
                  Append(conversation_history,
                         ToolMessageOf(message.tool_calls.l[call_index], invoke'))
            /\ model_calls' = model_calls
            /\ message' = message
            /\ (call_index < Len(message.tool_calls.l) =>
                   pc' = "dispatch" /\ call_index' = call_index + 1)
            /\ (call_index = Len(message.tool_calls.l) => pc' = "loop")]_vars
    /\ [](pc = "dispatch" =>
            LET h == conversation_history
                a == Len(h) - (call_index - 1)
            IN  /\ call_index \in 1..Len(message.tool_calls.l)
                /\ a >= 3
                /\ h[a].role = "assistant"
                /\ h[a].tool_calls = message.tool_calls
                /\ \A j \in 1..(call_index - 1) :
                      /\ h[a + j].role = "tool"
                      /\ h[a + j].tool_call_id = message.tool_calls.l[j].id)
    /\ [][model_calls' = model_calls + 1 =>
            /\ pc = "loop"
            /\ \A a \in AssistantTurns(conversation_history) :
                  Truthy(conversation_history[a].tool_calls) =>
                      AllAnswered(conversation_history, a)]_vars

C17_Witness ==
    LET h == conversation_history IN
    /\ pc = "done"
    /\ model_calls = 2
    /\ Len(h) >= 6
    /\ h[3].role = "assistant"
    /\ Len(h[3].tool_calls.l) = 2
    /\ StartsWith(h[4].content.s, <<"E", "r", "r", "o", "r", " ", "c", "a", "l", "l", "i", "n", "g">>)
    /\ h[5].role = "tool"
    /\ h[5].tool_call_id = h[3].tool_calls.l[2].id
    /\ h[6].role = "assistant"

-----------------------------------------------------------------------------
(* The plan and the driving loop *)

RECURSIVE ToolCallsFrom(_, _)
\* the tool calls the assistant messages of h request, from position i on, in
\* the order of the transcript
ToolCallsFrom(h, i) ==
    IF i > Len(h) THEN <<>>
    ELSE (IF h[i].role = "assistant" /\ Truthy(h[i].tool_calls)
          THEN h[i].tool_calls.l ELSE <<>>)
         \o ToolCallsFrom(h, i + 1)

\* a call of the append tool whose payload is a JSON object that holds the
\* instruction text under "action_item" and nothing else
WellFormedAppend(call) ==
    /\ call.name = AddActionItem
    /\ JsonLoads(call.arguments).ok
    /\ JsonLoads(call.arguments).value.t = "dict"
    /\ Keys(JsonLoads(call.arguments).value) = {ActionItemParam}
    /\ Arg(JsonLoads(call.arguments).value, ActionItemParam).t = "str"

\* planner.run has returned and the driving loop has not gone on yet
PlannerReturned == main_pc = "planner" /\ pc = "done"

\* C18: when every call of the append tool the planner made in its run has
\* well-formed arguments, then after planner.run has returned action_items
\* holds exactly the instruction texts of those calls, in call order, and
\* current_index is 0.
C18_PlanPopulation ==
    LET calls == ToolCallsFrom(conversation_history, 1) IN
    (PlannerReturned /\ \A j \in 1..Len(calls) : WellFormedAppend(calls[j])) =>
        /\ plan_storage.action_items =
              [j \in 1..Len(calls) |->
                 Arg(JsonLoads(calls[j].arguments).value, ActionItemParam)]
        /\ plan_storage.current_index = 0

C18_Witness ==
    /\ PlannerReturned
    /\ terminal = "COMPLETED"
    /\ Cardinality(AssistantTurns(conversation_history)) = 3
    /\ Len(ToolCallsFrom(conversation_history, 1)) = 2
    /\ plan_storage.action_items = <<PyStr(<<"i", "2">>), PyStr(<<"i", "1">>)>>

\* C19: the planner is run once and has returned before any executor run;
\* then the executor is run once for each queued item in queue order (index
\* 0, 1, ...), the cursor grows by exactly one after each executor run, no
\* item is skipped or run twice, and the loop stops with the cursor equal to
\* the number of items.
C19_DrivingLoopOrder ==
    /\ [](LET items == plan_storage.action_items
              cursor == plan_storage.current_index
              n == Len(run_log)
          IN  /\ (main_pc = "start" <=> n = 0)
              /\ (n >= 1 => run_log[1].agent = "planner" /\ run_log[1].task = user_prompt)
              /\ (main_pc = "planner" => n = 1 /\ cursor = 0 /\ agent = "planner")
              /\ (n >= 2 => main_pc \in {"drain", "executor", "end"} /\ agent = "executor")
              /\ \A k \in 2..n :
                    /\ run_log[k].agent = "executor"
                    /\ run_log[k].item = k - 2
                    /\ run_log[k].item < Len(items)
                    /\ run_log[k].task = ExecutorPrompt(items[run_log[k].item + 1])
              /\ (main_pc \in {"drain", "end"} => n = 1 + cursor)
              /\ (main_pc = "executor" => n = 2 + cursor /\ pc # "idle")
              /\ cursor <= Len(items)
              /\ (main_pc = "end" => cursor = Len(items) /\ n = 1 + Len(items)))
    /\ [][plan_storage'.current_index # plan_storage.current_index =>
            /\ plan_storage'.current_index = plan_storage.current_index + 1
            /\ main_pc = "executor" /\ pc = "done"
            /\ main_pc' = "drain"]_vars
    /\ [][main_pc' = "executor" /\ main_pc # "executor" =>
            /\ main_pc = "drain"
            /\ Len(run_log') = Len(run_log) + 1
            /\ plan_storage' = plan_storage]_vars

C19_Witness ==
    /\ main_pc = "end"
    /\ Len(plan_storage.action_items) = 2
    /\ plan_storage.action_items[1] # plan_storage.action_items[2]
    /\ plan_storage.current_index = 2
    /\ Len(run_log) = 3
    /\ run_log[2].task # run_log[3].task

ToolMessages(h) == {i \in 1..Len(h) : h[i].role = "tool"}

\* the calls of the current turn that have not been run yet
PendingCalls ==
    IF pc = "dispatch" THEN Len(message.tool_calls.l) - call_index + 1 ELSE 0

\* C20: every run(task) starts from the transcript [system(system_prompt),
\* user(task)] and the counter 0, whatever an earlier run on the same agent
\* left in the transcript; so the transcript of a run holds, after these two
\* messages, only the assistant messages of the model calls of this run and
\* the tool messages of the calls of this run, and none of an earlier run.
C20_FreshTranscript ==
    /\ [][Len(run_log') = Len(run_log) + 1 =>
            /\ conversation_history' =
                  <<[role |-> "system", content |-> PyStr(system_prompt)],
                    [role |-> "user",
                     content |-> PyStr(run_log'[Len(run_log')].task)]>>
            /\ iteration_count' = 0]_vars
    /\ [](InRun =>
            LET h == conversation_history
                failed == IF terminal = "TRANSPORT_ERROR" THEN 1 ELSE 0
            IN  /\ Len(h) >= 2
                /\ h[1] = [role |-> "system", content |-> PyStr(system_prompt)]
                /\ h[2] = [role |-> "user",
                           content |-> PyStr(run_log[Len(run_log)].task)]
                /\ iteration_count = model_calls
                /\ Cardinality(AssistantTurns(h)) = model_calls - failed
                /\ Cardinality(ToolMessages(h)) = tool_calls_requested - PendingCalls
                /\ Len(h) = 2 + Cardinality(AssistantTurns(h))
                              + Cardinality(ToolMessages(h)))

C20_Witness ==
    /\ Len(run_log) = 2
    /\ run_log[1].task # run_log[2].task
    /\ pc = "done"
    /\ conversation_history[2].content.s = run_log[2].task
    /\ Cardinality(ToolMessages(conversation_history)) = 1
    /\ Cardinality(AssistantTurns(conversation_history)) = 2

\* "Success: Operation completed successfully."
OperationCompleted == <<"S", "u", "c", "c", "e", "s", "s", ":", " ", "O", "p", "e", "r", "a", "t", "i", "o", "n", " ", "c", "o", "m", "p", "l", "e", "t", "e", "d", " ", "s", "u", "c", "c", "e", "s", "s", "f", "u", "l", "l", "y", ".">>

\* C23: for every registered tool whose body raises no fault and returns
\* None, whatever return type the tool declares, _format_tool_result applied
\* to what _call_tool gives is exactly
\* "Success: Operation completed successfully.".
C23_NullRoundTrip ==
    (NormalReturn /\ invoke.outcome.value = PyNone) =>
        /\ invoke.tool_result = Success(PyNone)
        /\ invoke.formatted_result = OperationCompleted

C23_Witness ==
    /\ NormalReturn
    /\ invoke.outcome.value = PyNone
    /\ invoke.tool_name = StrTool
    /\ tools[StrTool].return_annotation = AnnClass("str")
    /\ invoke.formatted_result = OperationCompleted


\* _call_tool gave a Failure: the name is unknown, the call raised, or the
\* tool handed back a string that counts as an error
FailedInvocation == pc = "invoked" /\ ~invoke.tool_result.success

\* C29: every Failure is rendered by _format_tool_result as
\* "Error calling {tool_name} with arguments:\n{arguments as JSON}\n\nError: {error}",
\* the echoed arguments being those of the failed invocation ({} for an empty
\* mapping), for unknown tools, raised faults and failures the tool reports.
C29_FailureRendering ==
    FailedInvocation =>
        /\ invoke.tool_result.tool_name = invoke.tool_name
        /\ invoke.tool_result.arguments = invoke.arguments
        /\ invoke.formatted_result =
              <<"E", "r", "r", "o", "r", " ", "c", "a", "l", "l", "i", "n", "g", " ">> \o invoke.tool_name \o <<" ", "w", "i", "t", "h", " ", "a", "r", "g", "u", "m", "e", "n", "t", "s", ":", "\n">>
              \o JsonDumps(invoke.arguments)
              \o <<"\n", "\n", "E", "r", "r", "o", "r", ":", " ">> \o invoke.tool_result.error
        /\ (invoke.arguments = PyDict(<<>>) =>
               invoke.formatted_result =
                  <<"E", "r", "r", "o", "r", " ", "c", "a", "l", "l", "i", "n", "g", " ">> \o invoke.tool_name \o <<" ", "w", "i", "t", "h", " ", "a", "r", "g", "u", "m", "e", "n", "t", "s", ":", "\n", "{", "}", "\n", "\n", "E", "r", "r", "o", "r", ":", " ">>
                  \o invoke.tool_result.error)

\* a failure the tool reports, a raised fault and an unknown name
C29_Witness ==
    /\ FailedInvocation
    /\ \/ /\ invoke.tool_name = AnyTool
          /\ invoke.outcome = Return(PyStr(ErrorBad))
          /\ invoke.formatted_result =
                <<"E", "r", "r", "o", "r", " ", "c", "a", "l", "l", "i", "n", "g", " ", "a", "n", "y", "_", "t", "o", "o", "l", " ", "w", "i", "t", "h", " ", "a", "r", "g", "u", "m", "e", "n", "t", "s", ":", "\n", "{", "\n", " ", " ", "\"", "a", "\"", ":", " ", "\"", "x", "\"", "\n", "}", "\n", "\n", "E", "r", "r", "o", "r", ":", " ", "E", "r", "r", "o", "r", ":", " ", "b", "a", "d">>
       \/ /\ invoke.tool_name = StrTool
          /\ invoke.outcome = Raise(Boom)
          /\ invoke.formatted_result =
                <<"E", "r", "r", "o", "r", " ", "c", "a", "l", "l", "i", "n", "g", " ", "s", "t", "r", "_", "t", "o", "o", "l", " ", "w", "i", "t", "h", " ", "a", "r", "g", "u", "m", "e", "n", "t", "s", ":", "\n", "{", "\n", " ", " ", "\"", "a", "\"", ":", " ", "\"", "x", "\"", "\n", "}", "\n", "\n", "E", "r", "r", "o", "r", ":", " ", "b", "o", "o", "m">>
       \/ /\ invoke.tool_name = NoTool
          /\ invoke.formatted_result =
                <<"E", "r", "r", "o", "r", " ", "c", "a", "l", "l", "i", "n", "g", " ", "n", "o", "_", "t", "o", "o", "l", " ", "w", "i", "t", "h", " ", "a", "r", "g", "u", "m", "e", "n", "t", "s", ":", "\n", "{", "}", "\n", "\n", "E", "r", "r", "o", "r", ":", " ", "T", "o", "o", "l", " ", "'", "n", "o", "_", "t", "o", "o", "l", "'", " ", "n", "o", "t", " ", "f", "o", "u", "n", "d">>


\* C25: each pass of the while loop makes exactly one model call and none is
\* repeated: the count of model calls and iteration_count move together, by
\* one, from the top of the loop only; in every terminal state the iterations
\* field of the result is the number of model calls attempted, the failed
\* call of a TRANSPORT_ERROR included.
C25_IterationsAreModelCalls ==
    /\ [][model_calls' # model_calls =>
            \/ (pc \in {"idle", "done"} /\ pc' = "loop" /\ model_calls' = 0
                /\ iteration_count' = 0)
            \/ (pc = "loop" /\ model_calls' = model_calls + 1
                /\ iteration_count' = iteration_count + 1)]_vars
    /\ [][iteration_count' # iteration_count =>
            iteration_count' - iteration_count = model_calls' - model_calls]_vars
    /\ [](InRun => iteration_count = model_calls)
    /\ [](pc = "done" =>
            /\ terminal \in Terminals
            /\ ret.iterations = model_calls
            /\ ret.iterations = Cardinality(AssistantTurns(conversation_history))
                                + (IF terminal = "TRANSPORT_ERROR" THEN 1 ELSE 0))

\* a run whose second model call failed reports two iterations
C25_Witness ==
    /\ pc = "done"
    /\ terminal = "TRANSPORT_ERROR"
    /\ model_calls = 2
    /\ ret.iterations = 2
    /\ Cardinality(AssistantTurns(conversation_history)) = 1

\* C26: the result of run() carries the key "warning" exactly when the run
\* ended in MAX_ITERATIONS and the key "error" exactly when it ended in
\* TRANSPORT_ERROR; a COMPLETED result carries neither and no result carries
\* both.
C26_WarningErrorExclusive ==
    pc = "done" =>
        /\ terminal \in Terminals
        /\ ("warning" \in DOMAIN ret <=> terminal = "MAX_ITERATIONS")
        /\ ("error" \in DOMAIN ret <=> terminal = "TRANSPORT_ERROR")
        /\ (terminal = "COMPLETED" => {"warning", "error"} \cap DOMAIN ret = {})
        /\ ~({"warning", "error"} \subseteq DOMAIN ret)

\* a second run of the agent has ended in MAX_ITERATIONS after a first run
C26_Witness ==
    /\ pc = "done"
    /\ Len(run_log) = 2
    /\ terminal = "MAX_ITERATIONS"
    /\ "warning" \in DOMAIN ret
    /\ "error" \notin DOMAIN ret


\* C22: action_items is changed only by a call of the append tool, which
\* only the planner holds, so it changes only inside the planner run and
\* never in the drain phase; current_index is changed only by the driving
\* loop, between two runs, never while a planner or executor run is going
\* on; 0 <= current_index <= len(action_items) in every state.
C22_PlanStoreOwnership ==
    /\ [](/\ 0 <= plan_storage.current_index
          /\ plan_storage.current_index <= Len(plan_storage.action_items))
    /\ [][plan_storage'.action_items # plan_storage.action_items =>
            /\ agent = "planner" /\ main_pc = "planner" /\ pc = "dispatch"
            /\ AddActionItem \in DOMAIN tools
            /\ invoke'.tool_name = AddActionItem
            /\ invoke'.ran
            /\ plan_storage'.action_items =
                  Append(plan_storage.action_items,
                         Arg(invoke'.arguments, ActionItemParam))]_vars
    /\ [][(main_pc \in {"drain", "executor", "end"}) =>
            (plan_storage'.action_items = plan_storage.action_items)]_vars
    /\ [][plan_storage'.current_index # plan_storage.current_index =>
            /\ main_pc = "executor" /\ pc = "done"
            /\ main_pc' = "drain" /\ pc' = "idle"]_vars
    /\ [][(pc \in {"loop", "dispatch"} \/ pc' \in {"loop", "dispatch"}) =>
            (plan_storage'.current_index = plan_storage.current_index)]_vars

\* the executor model asked for the append tool while the second item was
\* being executed: the name was not found and the plan is as the planner
\* left it
C22_Witness ==
    /\ main_pc = "executor"
    /\ pc = "done"
    /\ AddActionItem \notin DOMAIN tools
    /\ invoke # NoInvoke
    /\ invoke.tool_name = AddActionItem
    /\ ~invoke.tool_result.success
    /\ plan_storage.current_index = 1
    /\ Len(plan_storage.action_items) = 2


\* the prompt of src/main.py line 146 written out for an item: it is made
\* of the experience data and of the item, and of nothing else
PromptOfItem(action_item) ==
    <<"G", "i", "v", "e", "n", " ", "t", "h", "i", "s", " ", "e", "x", "e", "p", "e", "r", "i", "e", "n", "c", "e", " ", "d", "a", "t", "a", " ", "f", "r", "o", "m", " ", "t", "h", "e", " ", "u", "s", "e", "r", ":", "\n">>
    \o experience_data
    \o <<"\n", "\n", "E", "x", "e", "c", "u", "t", "e", " ", "t", "h", "i", "s", " ", "a", "c", "t", "i", "o", "n", " ", "i", "t", "e", "m", ",", " ", "f", "o", "l", "l", "o", "w", "i", "n", "g", " ", "t", "h", "e", " ", "g", "u", "i", "d", "e", "l", "i", "n", "e", "s", " ", "p", "r", "o", "v", "i", "d", "e", "d", ":", "\n">>
    \o Str(action_item)
    \o <<"\n", "\n">>

\* no job description occurs in the text
JobFree(text) == \A job \in JobDescriptions : ~Contains(text, job)

\* C21: whatever job description the run was started with, the prompt of
\* every executor run is the text made of the experience data and of the
\* queued item alone, and the transcript the executor run starts from is the
\* executor system prompt followed by that prompt; so two executions that
\* differ only in the job description and in which the planner queued the
\* same items give the executor the same prompts and the same initial
\* transcripts. No job description occurs in either.
C21_ExecutorInputNonInterference ==
    [][main_pc' = "executor" /\ main_pc # "executor" =>
          LET action_item ==
                  plan_storage.action_items[plan_storage.current_index + 1]
              entry == run_log'[Len(run_log')]
          IN  /\ agent' = "executor"
              /\ Len(run_log') = Len(run_log) + 1
              /\ SubSeq(run_log', 1, Len(run_log)) = run_log
              /\ entry.agent = "executor"
              /\ entry.task = PromptOfItem(action_item)
              /\ JobFree(entry.task)
              /\ JobFree(system_prompt')
              /\ conversation_history' =
                    <<[role |-> "system", content |-> PyStr(system_prompt')],
                      [role |-> "user",
                       content |-> PyStr(PromptOfItem(action_item))]>>
              /\ iteration_count' = 0]_vars

\* the run started from job description B: the planner queued two items and
\* the executor has been started on the second
C21_Witness ==
    /\ main_pc = "executor"
    /\ Len(run_log) = 3
    /\ run_log[1].task = UserPromptFor(<<"j", "o", "b", " ", "B">>)
    /\ Len(plan_storage.action_items) = 2
    /\ run_log[3].task = PromptOfItem(plan_storage.action_items[2])
    /\ conversation_history[2].content.s = run_log[3].task


\* {"success": True, "data": ...}
IsSuccess(result) == DOMAIN result = {"success", "data"} /\ result.success

\* {"success": False, "error": ..., "tool_name": ..., "arguments": ...}
IsFailure(result) ==
    /\ DOMAIN result = {"success", "error", "tool_name", "arguments"}
    /\ ~result.success

\* C24: in the Agent and in the AgenticLoop, what _call_tool hands to
\* _format_tool_result is either Success{data} or
\* Failure{error, tool_name, arguments}.
C24_ResultContract ==
    pc = "invoked" => (IsSuccess(invoke.tool_result) \/ IsFailure(invoke.tool_result))

\* the part that holds: what Agent._call_tool hands on is a Success or a
\* Failure
AgentResultContract ==
    (pc = "invoked" /\ agent = "agent") =>
        (IsSuccess(invoke.tool_result) \/ IsFailure(invoke.tool_result))


IsSequence(annotation) ==
    \/ annotation = AnnClass("list")
    \/ (annotation.k = "generic" /\ annotation.origin = "list")

\* the table: integer, floating point, boolean, sequence, anything else
TableType(annotation) ==
    IF annotation = AnnClass("int") THEN <<"i", "n", "t", "e", "g", "e", "r">>
    ELSE IF annotation = AnnClass("float") THEN <<"n", "u", "m", "b", "e", "r">>
    ELSE IF annotation = AnnClass("bool") THEN <<"b", "o", "o", "l", "e", "a", "n">>
    ELSE IF IsSequence(annotation) THEN <<"a", "r", "r", "a", "y">>
    ELSE <<"s", "t", "r", "i", "n", "g">>

\* the schemas give every parameter but self, in order, with the type
\* `table` gives for its annotation, and require those without a default
SchemasFollow(table(_)) ==
    \A d \in 1..Len(schemas) : \A t \in 1..Len(invoke.tools) :
        LET tool_func == invoke.tools[t][2]
            declared == SelectSeq(tool_func.params,
                                  LAMBDA param : param.name # <<"s", "e", "l", "f">>)
            parameters == schemas[d][t].function.parameters
        IN  /\ Len(parameters.properties) = Len(declared)
            /\ \A i \in 1..Len(declared) :
                  /\ parameters.properties[i][1] = declared[i].name
                  /\ parameters.properties[i][2].type = table(declared[i].annotation)
            /\ {parameters.required[i] : i \in 1..Len(parameters.required)}
                  = {declared[i].name : i \in {j \in 1..Len(declared) :
                                                 ~declared[j].default}}

\* C28: every parameter gets the type tag of the table: int "integer",
\* float "number", bool "boolean", every sequence annotation (list,
\* typing.List and element-typed ones such as List[str]) "array", anything
\* else and no annotation "string"; a parameter is required iff it has no
\* default; self is left out.
C28_TypeInferenceTable == SchemasFollow(TableType)

\* the table with "array" for the bare list and typing.List only
BareListTable(annotation) ==
    IF annotation = ListOfStr THEN <<"s", "t", "r", "i", "n", "g">> ELSE TableType(annotation)

\* what holds: an element-typed sequence gets "string"
SchemasFollowBareListTable == SchemasFollow(BareListTable)


\* C30: whenever no run is going on, the session log holds one interaction
\* for each run() call that has returned, in the order of the runs, each
\* holding the transcript of its run.
C30_OneInteractionPerRun ==
    pc \in {"idle", "done"} =>
        /\ Len(session_log.interactions) = Len(run_log)
        /\ \A k \in 1..Len(run_log) :
              /\ Len(session_log.interactions[k].conversation_history) >= 2
              /\ session_log.interactions[k].conversation_history[2].content
                    = PyStr(run_log[k].task)

\* what holds: the log changes only by save_log(), which adds the transcript
\* and the counter of the moment at the end and leaves the interactions
\* recorded before as they are; run() writes nothing
SessionLogAppendOnly ==
    [][session_log' # session_log =>
          /\ pc \in {"idle", "done"}
          /\ pc' = pc
          /\ session_log'.interactions =
                Append(session_log.interactions,
                       [iteration_count |-> iteration_count,
                        conversation_history |-> conversation_history])]_vars


-----------------------------------------------------------------------------
(* The two agent implementations *)

\* what of a message is the same whichever class wrote it: all of it, but
\* for the text of a tool message
Skeleton(msg) ==
    IF msg.role = "tool"
    THEN [role |-> msg.role, tool_call_id |-> msg.tool_call_id, name |-> msg.name]
    ELSE msg

Skeletons(history) == [i \in 1..Len(history) |-> Skeleton(history[i])]

\* C31: given the same cap, the same responses and faults of the model and
\* the same tool mapping, Agent.run and AgenticLoop.run are at the same
\* position, have counted the same iterations, have written transcripts with
\* the same roles and call-ids (only the text of a tool message differs) and
\* end in the same terminal signal with the same iterations value.
C31_SameStateMachine ==
    /\ agentic_loop.pc = pc
    /\ agentic_loop.max_iterations = max_iterations
    /\ agentic_loop.iteration_count = iteration_count
    /\ agentic_loop.terminal = terminal
    /\ Skeletons(agentic_loop.conversation_history) = Skeletons(conversation_history)
    /\ pc = "done" =>
          /\ DOMAIN agentic_loop.ret = DOMAIN ret
          /\ agentic_loop.ret.iterations = ret.iterations
          /\ Skeletons(agentic_loop.ret.conversation_history)
                = Skeletons(ret.conversation_history)

\* both runs have completed after a tool call that the two classes reported
\* to the model in different words
C31_Witness ==
    /\ pc = "done"
    /\ terminal = "COMPLETED"
    /\ agentic_loop.terminal = "COMPLETED"
    /\ \E i \in 1..Len(conversation_history) :
          /\ conversation_history[i].role = "tool"
          /\ agentic_loop.conversation_history[i].content
                # conversation_history[i].content

-----------------------------------------------------------------------------
(* The append tool and the length of the plan *)

\* the tool messages of add_action_item in a transcript
AddMessages(history) ==
    {i \in 1..Len(history) :
        /\ history[i].role = "tool"
        /\ history[i].name = AddActionItem}

\* those that report Success to the model
AddSuccesses(history) ==
    {i \in AddMessages(history) :
        StartsWith(history[i].content.s, <<"S", "u", "c", "c", "e", "s", "s", ":">>)}

\* C32: while the planner runs, the length of the plan equals the number of
\* add_action_item invocations classified Success; an invocation appends its
\* text at the end and leaves the items before it as they were, and an
\* invocation that is a Failure leaves the plan unchanged.
C32_LengthTracksSuccess ==
    main_pc = "planner" =>
        Len(plan_storage.action_items)
            = Cardinality(AddSuccesses(conversation_history))

\* what holds: the plan only grows at its end, by the argument of an
\* invocation whose body ran, whatever the invoker made of it; a Failure
\* raised before the body ran leaves the plan as it was; the acknowledgement
\* of a Success gives the new length
PlanGrowsWithBodyRuns ==
    [][(pc = "dispatch" /\ pc' \in {"dispatch", "loop"} /\ agent = "planner") =>
          LET items == plan_storage.action_items IN
          IF invoke'.ran
          THEN /\ plan_storage'.action_items
                     = Append(items, Arg(invoke'.arguments, ActionItemParam))
               /\ invoke'.tool_result.success =>
                     invoke'.tool_result.data
                        = PyStr(<<"A", "c", "t", "i", "o", "n", " ", "i", "t", "e", "m", " ", "a", "d", "d", "e", "d", ":", " ">>
                                \o Arg(invoke'.arguments, ActionItemParam).s
                                \o <<".", ".", ".", " ", "(", "T", "o", "t", "a", "l", ":", " ">>
                                \o IntStr(Len(items) + 1) \o <<")">>)
          ELSE /\ plan_storage' = plan_storage
               /\ ~invoke'.tool_result.success]_vars

\* the planner has asked for a number as the item: the plan holds it and the
\* invocation was reported as a Failure
NonTextItemQueued ==
    /\ main_pc = "planner"
    /\ Len(plan_storage.action_items) = 1
    /\ plan_storage.action_items[1] = PyInt(7)
    /\ AddSuccesses(conversation_history) = {}
    /\ Cardinality(AddMessages(conversation_history)) = 1

-----------------------------------------------------------------------------
(* The driving loop and the terminal signals *)

\* the results of the executor runs, in the order they were handed back
ExecutorResults ==
    LET OfExecutor(r) == r.agent = "executor" IN SelectSeq(results, OfExecutor)

\* C33: the driving loop does not look at how a run ended. When planner.run
\* returns, with whatever terminal signal, the plan is as the planner left
\* it and the drain starts; when executor.run returns, with whatever signal,
\* the cursor moves on by one and, while items are left, the next run can
\* start; the executor runs are the runs of items 0, 1, 2, ... in order, one
\* each, and when the program ends every item has had its run.
C33_DrainIgnoresTerminal ==
    /\ [][(main_pc = "planner" /\ main_pc' # "planner") =>
             (main_pc' = "drain" /\ plan_storage' = plan_storage)]_vars
    /\ [][(main_pc = "executor" /\ main_pc' # "executor") =>
             /\ main_pc' = "drain"
             /\ plan_storage'.current_index = plan_storage.current_index + 1
             /\ plan_storage'.action_items = plan_storage.action_items]_vars
    /\ []((main_pc = "drain" /\ DrainCondition(plan_storage)) => ENABLED ExecutorRun)
    /\ [](\A i \in 1..Len(ExecutorResults) : ExecutorResults[i].item = i - 1)
    /\ [](main_pc = "drain" => Len(ExecutorResults) = plan_storage.current_index)
    /\ [](main_pc = "end" =>
             Len(ExecutorResults) = Len(plan_storage.action_items))

\* the program has ended after a planner run that hit its cap with two items
\* queued, an executor run for the first item that ended in a transport
\* error and an executor run for the second item that hit its cap
C33_Witness ==
    /\ main_pc = "end"
    /\ Len(plan_storage.action_items) = 2
    /\ Len(results) = 3
    /\ results[1].agent = "planner"
    /\ results[1].terminal = "MAX_ITERATIONS"
    /\ results[2].terminal = "TRANSPORT_ERROR"
    /\ results[2].item = 0
    /\ results[3].terminal = "MAX_ITERATIONS"
    /\ results[3].item = 1

-----------------------------------------------------------------------------
(* The iteration budget *)

\* C34: the iteration counter never exceeds the cap; a run that ends by
\* exhausting the cap reports iterations equal to the cap, with the warning;
\* with a cap of 0 the run makes no model call and no tool invocation, the
\* transcript stays at the system and the user message, and the run ends in
\* MAX_ITERATIONS with the task text as its result.
C34_IterationBudget ==
    /\ max_iterations >= 0
    /\ iteration_count <= max_iterations
    /\ (pc = "done" /\ terminal = "MAX_ITERATIONS") =>
          /\ ret.iterations = max_iterations
          /\ ret.warning = PyStr(MaxIterationsText)
    /\ max_iterations = 0 =>
          /\ model_calls = 0
          /\ tool_calls_requested = 0
          /\ invoke = NoInvoke
          /\ pc # "dispatch"
          /\ InRun => /\ Len(conversation_history) = 2
                      /\ conversation_history[2].role = "user"
          /\ pc = "done" =>
                /\ terminal = "MAX_ITERATIONS"
                /\ ret.result = PyStr(run_log[Len(run_log)].task)
                /\ ret.result = conversation_history[2].content
                /\ ret.final_message = ret.result
                /\ ret.iterations = 0

\* a run with a cap of 0 has returned the task text
C34_Witness ==
    /\ max_iterations = 0
    /\ pc = "done"
    /\ terminal = "MAX_ITERATIONS"
    /\ ret.result = PyStr(<<"t", "1">>)
    /\ "warning" \in DOMAIN ret
    /\ model_calls = 0

-----------------------------------------------------------------------------
(* The transcripts handed back *)

\* C35: the list a returned dictionary holds as its conversation_history is
\* never changed after the return: no step of a later run() and no reset of
\* the transcript by the caller changes the transcript of an earlier result,
\* which stays the full transcript of its run, from the system and the user
\* message on; the dictionary of the last run holds the transcript the agent
\* has when it returns.
C35_ReturnedTranscriptFrozen ==
    /\ [][/\ Len(results') >= Len(results)
          /\ \A i \in 1..Len(results) :
                /\ results'[i].conversation_history = results[i].conversation_history
                /\ results'[i].terminal = results[i].terminal]_vars
    /\ [](\A i \in 1..Len(results) :
             /\ Len(results[i].conversation_history) >= 2
             /\ results[i].conversation_history[1].role = "system"
             /\ results[i].conversation_history[2].role = "user")
    /\ [](pc = "done" =>
             /\ results[Len(results)].conversation_history = ret.conversation_history
             /\ ret.conversation_history = conversation_history)

\* the caller has emptied the transcript after the second run; the result of
\* the first run, which called a tool, still holds its five messages and the
\* task of that run, and the second run had another task
C35_Witness ==
    /\ Len(results) = 2
    /\ pc = "idle"
    /\ conversation_history = <<>>
    /\ Len(results[1].conversation_history) = 5
    /\ results[1].conversation_history[4].role = "tool"
    /\ results[1].conversation_history[2].content = PyStr(<<"t", "1">>)
    /\ results[2].conversation_history[2].content = PyStr(<<"t", "2">>)


\* the tools of the ResumeBuilder that src/main.py registers with the executor
ResumeTools ==
    {<<"s", "e", "t", "_", "n", "a", "m", "e">>, <<"s", "e", "t", "_", "a", "d", "d", "r", "e", "s", "s">>, <<"s", "e", "t", "_", "p", "h", "o", "n", "e", "_", "n", "u", "m", "b", "e", "r">>, <<"s", "e", "t", "_", "e", "m", "a", "i", "l">>,
     <<"a", "d", "d", "_", "c", "o", "n", "t", "a", "c", "t">>, <<"s", "e", "t", "_", "s", "u", "m", "m", "a", "r", "y">>, <<"a", "d", "d", "_", "s", "k", "i", "l", "l", "s">>, <<"a", "d", "d", "_", "w", "o", "r", "k", "_", "e", "x", "p", "e", "r", "i", "e", "n", "c", "e">>}

\* a method of the ResumeBuilder has been called and has returned
ResumeReturned ==
    /\ "ran" \in DOMAIN invoke
    /\ invoke.tool_name \in ResumeTools
    /\ invoke.ran

TypeErrorPrefix == <<"T", "y", "p", "e", " ", "e", "r", "r", "o", "r", ":">>

\* C36: every string a ResumeBuilder tool of the executor returns is
\* reported by _call_tool as a Failure, the "Type error: ..." messages for
\* arguments that are no strings included.
C36_StringIsFailure ==
    (ResumeReturned /\ invoke.outcome.value.t = "str") =>
        ~invoke.tool_result.success

\* what the code does with the text annotation: a returned None is a Success
\* without data, and a returned string is a Failure exactly if it starts
\* with "Error:"
ResumeReturnRule ==
    ResumeReturned =>
        LET value == invoke.outcome.value IN
        /\ tools[invoke.tool_name].return_annotation = OptionalStrText
        /\ (value = PyNone => invoke.tool_result = Success(PyNone))
        /\ (value.t = "str" =>
               IF StartsWith(value.s, ErrorPrefix)
               THEN invoke.tool_result = Failure(value.s, invoke.tool_name,
                                                 invoke.arguments)
               ELSE invoke.tool_result = Success(value))

\* a "Type error: ..." message is never reported as a Failure
TypeErrorIsSuccess ==
    (ResumeReturned /\ invoke.outcome.value.t = "str"
        /\ StartsWith(invoke.outcome.value.s, TypeErrorPrefix)) =>
        /\ invoke.tool_result.success
        /\ StartsWith(invoke.formatted_result, <<"S", "u", "c", "c", "e", "s", "s", ":", " ">>)

\* set_name(name=7) has returned its type error
TypeErrorReturned ==
    /\ ResumeReturned
    /\ invoke.tool_name = <<"s", "e", "t", "_", "n", "a", "m", "e">>
    /\ invoke.outcome = Return(PyStr(<<"T", "y", "p", "e", " ", "e", "r", "r", "o", "r", ":", " ", "'", "n", "a", "m", "e", "'", " ", "m", "u", "s", "t", " ", "b", "e", " ", "a", " ", "s", "t", "r", "i", "n", "g", ",", " ", "g", "o", "t", " ", "i", "n", "t">>))
    /\ invoke.tool_result.success
    /\ latex_resume.name = PyNone


\* the step is a method of the ResumeBuilder returning a string
ReturnsString ==
    /\ "ran" \in DOMAIN invoke'
    /\ invoke'.ran
    /\ invoke'.outcome.value.t = "str"

\* C37: a ResumeBuilder tool call that returns an error string leaves the
\* whole builder as it was before the call: name, address, phone, email,
\* contacts, summary, the skills with their section keys, the work
\* experiences and the section order.
C37_ErrorLeavesBuilder ==
    [][ReturnsString => latex_resume' = latex_resume]_vars

\* what the code keeps on an error string: every field but the skills, the
\* skills of the sections there were, and at most one new section, without
\* skills, which only add_skills creates
ErrorKeepsAllButSectionKeys ==
    [][ReturnsString =>
        /\ [latex_resume' EXCEPT !.skills = latex_resume.skills] = latex_resume
        /\ \/ latex_resume'.skills = latex_resume.skills
           \/ /\ invoke'.tool_name = <<"a", "d", "d", "_", "s", "k", "i", "l", "l", "s">>
              /\ Len(latex_resume'.skills) = Len(latex_resume.skills) + 1
              /\ SubSeq(latex_resume'.skills, 1, Len(latex_resume.skills))
                     = latex_resume.skills
              /\ latex_resume'.skills[Len(latex_resume'.skills)][2] = <<>>]_vars

\* add_skills has returned its error for a list without a skill and the
\* section it named is a key of the skills, while no section is in the order
EmptySectionCreated ==
    /\ ResumeReturned
    /\ invoke.tool_name = <<"a", "d", "d", "_", "s", "k", "i", "l", "l", "s">>
    /\ invoke.outcome.value.t = "str"
    /\ ~invoke.tool_result.success
    /\ latex_resume.skills = << <<<<"L", "A", "N", "G">>, <<>>>> >>
    /\ latex_resume.section_order = <<>>


\* the experience points Python gets from the text: split at '<<', stripped
ExperiencePoints(arguments) ==
    LET parts == Split(Arg(arguments, <<"e", "x", "p", "e", "r", "i", "e", "n", "c", "e", "_", "p", "o", "i", "n", "t", "s">>).s, <<"<", "<">>)
    IN  [i \in 1..Len(parts) |-> Strip(parts[i])]

\* the step is add_work_experience called with strings without LaTeX that
\* hold more than three experience points
MoreThanThreePoints ==
    /\ "ran" \in DOMAIN invoke'
    /\ invoke'.ran
    /\ invoke'.tool_name = <<"a", "d", "d", "_", "w", "o", "r", "k", "_", "e", "x", "p", "e", "r", "i", "e", "n", "c", "e">>
    /\ ~Truthy(ValidateParams(invoke'.arguments, WorkExperienceParams))
    /\ Len(ExperiencePoints(invoke'.arguments)) > 3

\* C38: add_work_experience given more than three '<<'-separated experience
\* points keeps the first three points and adds the work-experience entry,
\* ignoring the points after the third.
C38_ExtraPointsIgnored ==
    [][MoreThanThreePoints =>
        /\ invoke'.outcome = Return(PyNone)
        /\ latex_resume'.work_experiences =
               Append(latex_resume.work_experiences,
                      WorkExperience(invoke'.arguments,
                                     SubSeq(ExperiencePoints(invoke'.arguments), 1, 3)))]_vars

\* what the code does with more than three points: it returns its error,
\* reported as a Failure, and adds no entry
ExtraPointsRejected ==
    [][MoreThanThreePoints =>
        /\ invoke'.outcome.value.t = "str"
        /\ StartsWith(invoke'.outcome.value.s, ErrorPrefix)
        /\ ~invoke'.tool_result.success
        /\ latex_resume' = latex_resume]_vars

\* with one to three points the entry is added with all of them
UpToThreePointsAdded ==
    [][(/\ "ran" \in DOMAIN invoke'
        /\ invoke'.ran
        /\ invoke'.tool_name = <<"a", "d", "d", "_", "w", "o", "r", "k", "_", "e", "x", "p", "e", "r", "i", "e", "n", "c", "e">>
        /\ ~Truthy(ValidateParams(invoke'.arguments, WorkExperienceParams))
        /\ Len(ExperiencePoints(invoke'.arguments)) <= 3
        /\ ExperiencePoints(invoke'.arguments) # <<<<>>>>) =>
        /\ invoke'.outcome = Return(PyNone)
        /\ latex_resume'.work_experiences =
               Append(latex_resume.work_experiences,
                      WorkExperience(invoke'.arguments,
                                     ExperiencePoints(invoke'.arguments)))]_vars

\* add_work_experience has been called with four points and the builder has
\* no work experience
FourPointsRejected ==
    /\ ResumeReturned
    /\ invoke.tool_name = <<"a", "d", "d", "_", "w", "o", "r", "k", "_", "e", "x", "p", "e", "r", "i", "e", "n", "c", "e">>
    /\ Len(ExperiencePoints(invoke.arguments)) = 4
    /\ ~invoke.tool_result.success
    /\ latex_resume.work_experiences = <<>>

\* an entry with three points has been added
ThreePointsAdded ==
    /\ ResumeReturned
    /\ invoke.tool_name = <<"a", "d", "d", "_", "w", "o", "r", "k", "_", "e", "x", "p", "e", "r", "i", "e", "n", "c", "e">>
    /\ invoke.outcome = Return(PyNone)
    /\ Len(latex_resume.work_experiences) = 1
    /\ latex_resume.work_experiences[1].experience_points = <<<<"a">>, <<"b">>, <<"c">>>>
    /\ latex_resume.work_experiences[1].location = <<"B", "o", "s", "t", "o", "n">>

====
